---- MODULE Spec2Model ----
(***************************************************************************)
(* Model of the Biome analytics engine (backend/analytics/db.py) and of    *)
(* the HTTP handlers that drive it (backend/routers/data.py,               *)
(* backend/routers/metrics.py).                                            *)
(*                                                                         *)
(* A table is the sequence of its rows in physical (write) order.  Only    *)
(* the columns that some query of the engine reads are kept: row_id, date, *)
(* workout, exercise, reps, weight_kg, machine_level, rpe.  The columns    *)
(* set_number, duration_seconds, warm_up and notes are stored and returned *)
(* verbatim by the engine and take part in no condition; they are left out.*)
(*                                                                         *)
(* Dates are day numbers counted from Monday 2023-12-25 (day 0), so that   *)
(* python's date.weekday() is d % 7 and 2024 starts at day 7.              *)
(***************************************************************************)
EXTENDS Integers, Sequences, FiniteSets, TLC

VARIABLES training_history, demo_training_history, weight_history,
          active_table, resp, imp, calls

store == <<training_history, demo_training_history, weight_history>>
vars == <<training_history, demo_training_history, weight_history,
          active_table, resp, imp, calls>>

(* ------------------------------ bounds --------------------------------- *)
\* most rows a table holds before log_workout is no longer offered
MaxRows == 3
\* most data rows of an uploaded CSV file
MaxCsv == 2

(* --------------------------- SQL / python values ----------------------- *)
\* SQL NULL / python None in a numeric or date column (all real values >= 0)
NULL == -1
\* SQL NULL in a VARCHAR column
NULLSTR == "NULL"

RECURSIVE SeqSum(_)
SeqSum(s) == IF s = <<>> THEN 0 ELSE Head(s) + SeqSum(Tail(s))

SetMax(S) == CHOOSE x \in S : \A y \in S : y <= x
SetMin(S) == CHOOSE x \in S : \A y \in S : x <= y

\* the rows of table T that satisfy P, in table order (a WHERE clause)
Where(T, P(_)) == SelectSeq(T, P)

\* the values a column expression takes over the rows of T
Column(T, f(_)) == {f(T[i]) : i \in 1..Len(T)}

\* SQL MAX(col): NULLs are ignored, NULL when no value is left
SqlMax(T, f(_)) ==
    LET vals == Column(T, f) \ {NULL}
    IN IF vals = {} THEN NULL ELSE SetMax(vals)

\* SQL COUNT(*)
SqlCount(T) == Len(T)

(* ------------------------------ calendar ------------------------------- *)
Year(d) == IF d < 7 THEN 2023 ELSE 2024
\* variant: a week that starts on Sunday
Weekday_from_sunday(d) == (d + 1) % 7
\* datetime.date.weekday(): Monday is 0
Weekday(d) == d % 7
\* str(date): the ISO text, kept as <<year, month, day>>
IsoDate(d) == IF d < 7 THEN <<2023, 12, 25 + d>> ELSE <<2024, 1, d - 6>>

(* ----------------------------- request inputs -------------------------- *)
\* WorkoutLogEntry bodies offered to POST /data/log
Entries ==
    { [date |-> 8, workout |-> "Leg Day", exercise |-> "Squat",
       reps |-> 5, weight_kg |-> 100, rpe |-> 9],
      [date |-> 5, workout |-> "Weak Point Day", exercise |-> "Bench",
       reps |-> NULL, weight_kg |-> NULL, rpe |-> NULL] }

\* text of CSV cells: dates and numerals the reader can cast, "" is a blank
\* cell, anything else is text that no DATE / INTEGER / DOUBLE cast accepts
DateText == ("2023-12-28" :> 3) @@ ("2024-01-01" :> 7)
Numeral == ("8" :> 8) @@ ("12" :> 12) @@ ("60" :> 60)

CsvRows ==
    { [date |-> "2024-01-01", workout |-> "Push", exercise |-> "Bench",
       reps |-> "8", weight_kg |-> "60", machine_level |-> "", rpe |-> "8"],
      [date |-> "2023-12-28", workout |-> "Weak Point Legs",
       exercise |-> "Leg Press",
       reps |-> "12", weight_kg |-> "", machine_level |-> "12", rpe |-> ""],
      [date |-> "01/13/24x", workout |-> "Push", exercise |-> "Bench",
       reps |-> "8", weight_kg |-> "60", machine_level |-> "", rpe |-> "8"] }

RECURSIVE SeqsUpTo(_, _)
SeqsUpTo(S, n) ==
    IF n = 0 THEN {<<>>}
    ELSE LET shorter == SeqsUpTo(S, n - 1)
         IN shorter \cup {Append(s, x) : s \in shorter, x \in S}

\* uploads offered to POST /data/import
\* file names are kept as their characters
CsvName == <<"a", ".", "c", "s", "v">>
TxtName == <<"a", ".", "t", "x", "t">>

Uploads ==
    {[filename |-> CsvName, rows |-> r] : r \in SeqsUpTo(CsvRows, MaxCsv)}
    \cup {[filename |-> TxtName, rows |-> <<>>]}

\* WeightEntry bodies offered to POST /metrics/weight
WeightEntries ==
    { [date |-> 9, weight_kg |-> 80],
      [date |-> 2, weight_kg |-> 80],
      [date |-> 9, weight_kg |-> 79] }

\* values date.today() may return
Todays == {12}

(* ------------------------- store adapter (db.py) ----------------------- *)
Tables == {"training_history", "demo_training_history"}

\* the rows of the table named n
TableOf(n) ==
    IF n = "demo_training_history" THEN demo_training_history
    ELSE training_history

\* implicit cast of a CSV cell to a DATE / INTEGER / DOUBLE column
CanCast(cell, texts) == cell = "" \/ cell \in DOMAIN texts
Cast(cell, texts) == IF cell = "" THEN NULL ELSE texts[cell]
CastStr(cell) == IF cell = "" THEN NULLSTR ELSE cell

CsvRowOk(r) ==
    /\ CanCast(r.date, DateText)
    /\ CanCast(r.reps, Numeral)
    /\ CanCast(r.weight_kg, Numeral)
    /\ CanCast(r.machine_level, Numeral)
    /\ CanCast(r.rpe, Numeral)

\* read_csv_auto(...) feeding the INSERT: the statement raises when some cell
\* cannot be cast to its column
CsvLoads(rows) == \A k \in 1..Len(rows) : CsvRowOk(rows[k])

\* variant numbering: counting the rows from 0
row_number_from_zero(k) == k - 1

\* row_number() OVER () of the k-th row read from the file
row_number(k) == k

\* INSERT INTO t SELECT row_number() OVER () as row_id, * FROM read_csv_auto
InsertFromCsv(rows) ==
    [k \in 1..Len(rows) |->
        [row_id |-> row_number(k),
         date |-> Cast(rows[k].date, DateText),
         workout |-> CastStr(rows[k].workout),
         exercise |-> CastStr(rows[k].exercise),
         reps |-> Cast(rows[k].reps, Numeral),
         weight_kg |-> Cast(rows[k].weight_kg, Numeral),
         machine_level |-> Cast(rows[k].machine_level, Numeral),
         rpe |-> Cast(rows[k].rpe, Numeral)]]

\* DELETE FROM training_history (autocommitted on its own)
DeleteAll(T) == <<>>

\* the INSERT ... SELECT statement of import_user_data on table T: a failing
\* statement adds nothing and raises
InsertSelect(T, rows) ==
    IF CsvLoads(rows)
    THEN [raised |-> FALSE, table |-> T \o InsertFromCsv(rows)]
    ELSE [raised |-> TRUE, table |-> T]

\* import_user_data: DELETE, then the INSERT ... SELECT on the emptied table,
\* then COUNT(*); an exception of the INSERT propagates
import_user_data(T, rows) ==
    LET ins == InsertSelect(DeleteAll(T), rows)
    IN [raised |-> ins.raised, table |-> ins.table,
        rows |-> IF ins.raised THEN 0 ELSE SqlCount(ins.table)]

\* variant numbering: the current maximum itself, without the increment
next_id_no_increment(T) ==
    LET m == SqlMax(T, LAMBDA r : r.row_id)
    IN IF m = NULL \/ m = 0 THEN 0 ELSE m

\* log_workout: next_id = (MAX(row_id) or 0) + 1
next_id(T) ==
    LET m == SqlMax(T, LAMBDA r : r.row_id)
    IN (IF m = NULL \/ m = 0 THEN 0 ELSE m) + 1

\* variant: the new row takes the place of the newest one
log_workout_over_newest(T, entry) ==
    LET row == [row_id |-> next_id(T),
                date |-> entry.date,
                workout |-> entry.workout,
                exercise |-> entry.exercise,
                reps |-> entry.reps,
                weight_kg |-> entry.weight_kg,
                machine_level |-> NULL,
                rpe |-> entry.rpe]
    IN IF T = <<>> THEN <<row>> ELSE [T EXCEPT ![Len(T)] = row]

\* log_workout: the INSERT names nine columns, machine_level is not among
\* them and stays NULL
log_workout(T, entry) ==
    Append(T, [row_id |-> next_id(T),
               date |-> entry.date,
               workout |-> entry.workout,
               exercise |-> entry.exercise,
               reps |-> entry.reps,
               weight_kg |-> entry.weight_kg,
               machine_level |-> NULL,
               rpe |-> entry.rpe])

\* variant upsert: ON CONFLICT (date) DO NOTHING
log_weight_do_nothing(W, date_val, weight_kg) ==
    IF \E i \in 1..Len(W) : W[i].date = date_val
    THEN W
    ELSE Append(W, [date |-> date_val, weight_kg |-> weight_kg])

\* log_weight: INSERT ... ON CONFLICT (date) DO UPDATE SET weight_kg
log_weight(W, date_val, weight_kg) ==
    IF \E i \in 1..Len(W) : W[i].date = date_val
    THEN [i \in 1..Len(W) |->
            IF W[i].date = date_val
            THEN [date |-> date_val, weight_kg |-> weight_kg]
            ELSE W[i]]
    ELSE Append(W, [date |-> date_val, weight_kg |-> weight_kg])

\* variant selector: the flag is ignored and the demo table is named
toggle_demo_mode_always_demo(enabled) == "demo_training_history"

\* toggle_demo_mode
toggle_demo_mode(enabled) ==
    IF enabled THEN "demo_training_history" ELSE "training_history"

\* str.endswith(".csv")
EndsWithCsv(name) ==
    /\ Len(name) >= 4
    /\ SubSeq(name, Len(name) - 3, Len(name)) = <<".", "c", "s", "v">>

(* ----------------------- read queries (db.py) -------------------------- *)
\* variant: the query result is passed on without the `or default`
PyOr_no_default(v, default) == v

\* python's `x or default` on a query result: None and 0 both give default
PyOr(v, default) == IF v = NULL \/ v = 0 THEN default ELSE v

\* COALESCE(x, y)
Coalesce(x, y) == IF x # NULL THEN x ELSE y

\* variant: no cut
Take_everything(s, n) == s

\* the first n elements of s (LIMIT n, s[:n])
Take(s, n) == SubSeq(s, 1, IF Len(s) < n THEN Len(s) ELSE n)

\* the elements of an integer set in ascending order (ORDER BY ... ASC over
\* distinct keys)
RECURSIVE Ascending(_)
Ascending(S) ==
    IF S = {} THEN <<>>
    ELSE <<SetMin(S)>> \o Ascending(S \ {SetMin(S)})

\* the orders SQL may return the elements of S in under ORDER BY: every
\* arrangement in which no element comes after one it must precede
Arrangements(S, Precedes(_, _)) ==
    LET arranged[R \in SUBSET S] ==
            IF R = {} THEN {<<>>}
            ELSE UNION {{<<x>> \o rest : rest \in arranged[R \ {x}]} :
                          x \in {y \in R : \A z \in R : ~Precedes(z, y)}}
    IN arranged[S]

\* exact fractions <<numerator, denominator>> stand for DOUBLE results of AVG
RatLess(a, b) == a[1] * b[2] < b[1] * a[2]
RatEq(a, b) == a[1] * b[2] = b[1] * a[2]
RatSub(a, b) == <<a[1] * b[2] - b[1] * a[2], a[2] * b[2]>>

\* SQL SUM(expr): NULL terms are ignored, NULL when no term is left
SqlSum(T, f(_)) ==
    LET terms == Where(T, LAMBDA r : f(r) # NULL)
    IN IF terms = <<>> THEN NULL
       ELSE SeqSum([i \in 1..Len(terms) |-> f(terms[i])])

\* the NULL of a DOUBLE held as a fraction, and 0.0
NullAvg == <<0, 0>>
ZeroAvg == <<0, 1>>

\* SQL AVG(expr) as a fraction, NULL when every term is NULL
SqlAvg(T, f(_)) ==
    LET terms == Where(T, LAMBDA r : f(r) # NULL)
    IN IF terms = <<>> THEN NullAvg
       ELSE <<SeqSum([i \in 1..Len(terms) |-> f(terms[i])]), Len(terms)>>

\* variant: a set with no reps counts as one rep
VolumeOf_missing_reps_as_one(r) ==
    IF r.weight_kg = NULL THEN NULL
    ELSE IF r.reps = NULL THEN r.weight_kg
    ELSE r.weight_kg * r.reps

\* weight_kg * reps, NULL when either is NULL
VolumeOf(r) ==
    IF r.weight_kg = NULL \/ r.reps = NULL THEN NULL
    ELSE r.weight_kg * r.reps

\* workout ILIKE '%Weak Point%' over the labels of the model
WeakPointLabels == {"Weak Point Day", "Weak Point Legs"}
IsWeakPoint(w) == w \in WeakPointLabels

\* collation order of the exercise names of the model
ExerciseRank == ("Bench" :> 1) @@ ("Leg Press" :> 2) @@ ("Squat" :> 3)

\* entries of W with the entry e put after the last one not dated later
RECURSIVE InsertByDate(_, _)
InsertByDate(sorted, e) ==
    IF sorted = <<>> THEN <<e>>
    ELSE IF Head(sorted).date <= e.date
         THEN <<Head(sorted)>> \o InsertByDate(Tail(sorted), e)
         ELSE <<e>> \o sorted

\* ORDER BY date ASC
RECURSIVE OrderByDate(_)
OrderByDate(W) ==
    IF W = <<>> THEN <<>>
    ELSE InsertByDate(OrderByDate(SubSeq(W, 1, Len(W) - 1)), W[Len(W)])

\* variant query: no ORDER BY, the rows come back as stored
get_weight_history_unordered(W) ==
    [k \in 1..Len(W) |->
        [date |-> IsoDate(W[k].date), weight_kg |-> W[k].weight_kg]]

\* get_weight_history
get_weight_history(W) ==
    LET results == OrderByDate(W)
    IN [k \in 1..Len(results) |->
          [date |-> IsoDate(results[k].date),
           weight_kg |-> results[k].weight_kg]]

\* variant: the newest date of the two training tables together
get_latest_date_of_both_tables(T, today) ==
    LET res == SqlMax(training_history \o demo_training_history,
                      LAMBDA r : r.date)
    IN IF res # NULL THEN res ELSE today

\* get_latest_date
get_latest_date(T, today) ==
    LET res == SqlMax(T, LAMBDA r : r.date)
    IN IF res # NULL THEN res ELSE today

\* start_of_week = latest_date - timedelta(days=latest_date.weekday())
start_of_week(latest_date) == latest_date - Weekday(latest_date)

\* the rows WHERE date >= start_of_week AND date <= latest_date
WeekRows(T, latest_date) ==
    Where(T, LAMBDA r : r.date # NULL /\ r.date >= start_of_week(latest_date)
                         /\ r.date <= latest_date)

\* the three queries of get_overview_metrics over the rows T, each `or 0`
week_frequency(T, latest_date) ==
    PyOr(Cardinality(Column(WeekRows(T, latest_date), LAMBDA r : r.date)), 0)
week_volume(T, latest_date) ==
    PyOr(SqlSum(WeekRows(T, latest_date), VolumeOf), 0)
week_weak_points(T, latest_date) ==
    PyOr(SqlCount(Where(WeekRows(T, latest_date),
                        LAMBDA r : IsWeakPoint(r.workout))), 0)

\* get_overview_metrics, over the rows T of the table named active
get_overview_metrics(T, today, active) ==
    LET latest_date == get_latest_date(T, today)
    IN [weekly_frequency |-> week_frequency(T, latest_date),
        total_volume_load_current_week |-> week_volume(T, latest_date),
        active_weak_points_count |-> week_weak_points(T, latest_date),
        is_demo |-> (active = "demo_training_history")]

\* python truthiness of the optional exercise argument
NoExercise == ""
Given(exercise) == exercise # NoExercise /\ exercise # NULLSTR

Metrics == {"volume_load", "average_rpe", "max_weight", "weekly_frequency"}

\* variant: a metric that is not known is trended as weekly_frequency
get_trends_unknown_as_frequency(T, metric, exercise) ==
    LET Match(r) == ~Given(exercise) \/ r.exercise = exercise
        Value(r) ==
            CASE metric = "volume_load" -> VolumeOf(r)
              [] metric = "average_rpe" -> r.rpe
              [] metric = "max_weight" ->
                    IF r.weight_kg = NULL /\ r.machine_level = NULL THEN NULL
                    ELSE Coalesce(r.machine_level, 0) + Coalesce(r.weight_kg, 0)
              [] OTHER -> 0
        Key(r) ==
            IF metric \in {"volume_load", "average_rpe", "max_weight"}
            THEN r.date
            ELSE r.date - Weekday(r.date)
        rows == Where(T, LAMBDA r : Match(r) /\ Value(r) # NULL)
        keys == Ascending(Column(rows, Key))
        Group(k) == Where(rows, LAMBDA r : Key(r) = k)
        Agg(k) ==
            CASE metric = "volume_load" -> SqlSum(Group(k), Value)
              [] metric = "average_rpe" -> SqlAvg(Group(k), Value)
              [] metric = "max_weight" -> SqlMax(Group(k), Value)
              [] OTHER -> Cardinality(Column(Group(k), LAMBDA r : r.date))
    IN [i \in 1..Len(keys) |-> [date |-> keys[i], value |-> Agg(keys[i])]]

\* variant: the exercise argument is not applied
get_trends_of_all_exercises(T, metric, exercise) ==
    LET Value(r) ==
            CASE metric = "volume_load" -> VolumeOf(r)
              [] metric = "average_rpe" -> r.rpe
              [] metric = "max_weight" ->
                    IF r.weight_kg = NULL /\ r.machine_level = NULL THEN NULL
                    ELSE Coalesce(r.machine_level, 0) + Coalesce(r.weight_kg, 0)
              [] OTHER -> 0
        Key(r) ==
            IF metric = "weekly_frequency" THEN r.date - Weekday(r.date)
            ELSE r.date
        rows == Where(T, LAMBDA r : Value(r) # NULL)
        keys == Ascending(Column(rows, Key))
        Group(k) == Where(rows, LAMBDA r : Key(r) = k)
        Agg(k) ==
            CASE metric = "volume_load" -> SqlSum(Group(k), Value)
              [] metric = "average_rpe" -> SqlAvg(Group(k), Value)
              [] metric = "max_weight" -> SqlMax(Group(k), Value)
              [] OTHER -> Cardinality(Column(Group(k), LAMBDA r : r.date))
    IN IF metric \notin Metrics THEN <<>>
       ELSE [i \in 1..Len(keys) |-> [date |-> keys[i], value |-> Agg(keys[i])]]

\* get_trends: one point per group, ordered by the group key
get_trends(T, metric, exercise) ==
    LET Match(r) == ~Given(exercise) \/ r.exercise = exercise
        Value(r) ==
            CASE metric = "volume_load" -> VolumeOf(r)
              [] metric = "average_rpe" -> r.rpe
              [] metric = "max_weight" ->
                    IF r.weight_kg = NULL /\ r.machine_level = NULL THEN NULL
                    ELSE Coalesce(r.machine_level, 0) + Coalesce(r.weight_kg, 0)
              [] OTHER -> 0
        Key(r) ==
            IF metric = "weekly_frequency" THEN r.date - Weekday(r.date)
            ELSE r.date
        rows == Where(T, LAMBDA r : Match(r) /\ Value(r) # NULL)
        keys == Ascending(Column(rows, Key))
        Group(k) == Where(rows, LAMBDA r : Key(r) = k)
        Agg(k) ==
            CASE metric = "volume_load" -> SqlSum(Group(k), Value)
              [] metric = "average_rpe" -> SqlAvg(Group(k), Value)
              [] metric = "max_weight" -> SqlMax(Group(k), Value)
              [] OTHER -> Cardinality(Column(Group(k), LAMBDA r : r.date))
    IN IF metric \notin Metrics THEN <<>>
       ELSE [i \in 1..Len(keys) |-> [date |-> keys[i], value |-> Agg(keys[i])]]

\* get_recent_history: the rows ORDER BY date DESC LIMIT limit, the date as
\* text; rows of one date come in any order
get_recent_history(T, limit) ==
    {[i \in 1..Len(Take(ord, limit)) |->
        [date |-> IsoDate(T[ord[i]].date),
         workout |-> T[ord[i]].workout,
         exercise |-> T[ord[i]].exercise,
         reps |-> T[ord[i]].reps,
         weight_kg |-> T[ord[i]].weight_kg,
         rpe |-> T[ord[i]].rpe]] :
      ord \in Arrangements(1..Len(T), LAMBDA i, j : T[i].date > T[j].date)}

\* get_exercises: DISTINCT exercise ORDER BY exercise, falsy names dropped
get_exercises(T) ==
    LET names == {e \in Column(T, LAMBDA r : r.exercise) : Given(e)}
        ranks == Ascending({ExerciseRank[e] : e \in names})
    IN [i \in 1..Len(ranks) |->
          CHOOSE e \in names : ExerciseRank[e] = ranks[i]]

ZeroStats ==
    [max_weight |-> 0, max_level |-> 0, average_rpe |-> ZeroAvg,
     total_volume |-> 0, total_sets |-> 0]

\* get_exercise_stats
get_exercise_stats(T, exercise) ==
    LET rows == Where(T, LAMBDA r : r.exercise = exercise)
        res0 == SqlMax(rows, LAMBDA r : r.weight_kg)
        res1 == SqlMax(rows, LAMBDA r : r.machine_level)
        res2 == SqlAvg(rows, LAMBDA r : r.rpe)
        res3 == SqlSum(rows, LAMBDA r :
                    IF r.reps = NULL THEN NULL
                    ELSE (Coalesce(r.machine_level, 0)
                          + Coalesce(r.weight_kg, 0)) * r.reps)
        res4 == SqlCount(rows)
    IN IF res0 = NULL /\ res1 = NULL THEN ZeroStats
       ELSE [max_weight |-> PyOr(res0, 0),
             max_level |-> PyOr(res1, 0),
             average_rpe |-> IF res2 = NullAvg \/ res2[1] = 0 THEN ZeroAvg
                             ELSE res2,
             total_volume |-> PyOr(res3, 0),
             total_sets |-> PyOr(res4, 0)]

\* get_progression_analysis: every result the two ORDER BY clauses allow
get_progression_analysis(T) ==
    LET weighted == Where(T, LAMBDA r : r.weight_kg # NULL /\ r.date # NULL)
        names == Column(weighted, LAMBDA r : r.exercise) \ {NULLSTR}
        Of(e) == Where(weighted, LAMBDA r : r.exercise = e)
        first_date(e) == SetMin(Column(Of(e), LAMBDA r : r.date))
        last_date(e) == SetMax(Column(Of(e), LAMBDA r : r.date))
        start_weight(e) ==
            SqlAvg(Where(Of(e), LAMBDA r : r.date = first_date(e)),
                   LAMBDA r : r.weight_kg)
        end_weight(e) ==
            SqlAvg(Where(Of(e), LAMBDA r : r.date = last_date(e)),
                   LAMBDA r : r.weight_kg)
        Line(e) ==
            [exercise |-> e, start_weight |-> start_weight(e),
             end_weight |-> end_weight(e),
             diff |-> RatSub(end_weight(e), start_weight(e))]
        lines == {Line(e) : e \in {n \in names : Line(n).diff[1] # 0}}
        groups == {<<T[i].date, T[i].workout>> : i \in 1..Len(T)}
        Summary(g) ==
            LET rows == Where(T, LAMBDA r : r.date = g[1] /\ r.workout = g[2])
            IN [date |-> IsoDate(g[1]), workout |-> g[2],
                sets |-> SqlCount(rows), volume |-> SqlSum(rows, VolumeOf),
                day |-> g[1]]
    IN {[top_progressions |-> Take(p, 5),
         recent_workout_summaries |->
            [i \in 1..Len(Take(q, 5)) |->
                [date |-> q[i].date, workout |-> q[i].workout,
                 sets |-> q[i].sets, volume |-> q[i].volume]]] :
          p \in Arrangements(lines, LAMBDA a, b : RatLess(b.diff, a.diff)),
          q \in Arrangements({Summary(g) : g \in groups},
                             LAMBDA a, b : a.day > b.day)}

\* COALESCE(weight_kg, machine_level)
LoadOf(r) == Coalesce(r.weight_kg, r.machine_level)

\* one finding; the integrity finding names no exercise and cites two dates
Finding(type, category, e) ==
    [type |-> type, category |-> category, exercise |-> e,
     date |-> NULL, prev_date |-> NULL]

\* variant: the per-exercise queries without their filter clause
MatchesFilter_of_any_exercise(r, exercise) == TRUE
\* the optional `AND exercise = ?` of the three per-exercise queries
MatchesFilter(r, exercise) == ~Given(exercise) \/ r.exercise = exercise

\* the rows the stagnation and progress queries keep:
\* (weight_kg IS NOT NULL OR machine_level IS NOT NULL) {filter_clause}
LoadedRows(T, exercise) ==
    Where(T, LAMBDA r : (r.weight_kg # NULL \/ r.machine_level # NULL)
                        /\ MatchesFilter(r, exercise))

\* variant: the pairs whose date, not year, goes down
integrity_findings_by_date(T) ==
    LET ByRowId == Arrangements(1..Len(T),
                                LAMBDA i, j : T[i].row_id < T[j].row_id)
        Anomalies(ord) ==
            {<<T[ord[k]].date, T[ord[k - 1]].date>> : k \in
                {n \in 2..Len(T) :
                    /\ T[ord[n]].date # NULL
                    /\ T[ord[n - 1]].date # NULL
                    /\ T[ord[n]].date < T[ord[n - 1]].date}}
        Integrity(a) ==
            [Finding("critical", "integrity", NULLSTR) EXCEPT
                !.date = a[1], !.prev_date = a[2]]
    IN UNION {IF Anomalies(ord) = {} THEN {<<>>}
              ELSE {<<Integrity(a)>> : a \in Anomalies(ord)} :
              ord \in ByRowId}

\* 0. integrity_query: LAG(date) OVER (ORDER BY row_id), SELECT DISTINCT of
\* the pairs whose year goes down, LIMIT 1 with no ORDER BY: any one of the
\* distinct pairs may come back.  The result is the set of finding lists the
\* query allows
integrity_findings(T) ==
    LET ByRowId == Arrangements(1..Len(T),
                                LAMBDA i, j : T[i].row_id < T[j].row_id)
        Anomalies(ord) ==
            {<<T[ord[k]].date, T[ord[k - 1]].date>> : k \in
                {n \in 2..Len(T) :
                    /\ T[ord[n]].date # NULL
                    /\ T[ord[n - 1]].date # NULL
                    /\ Year(T[ord[n]].date) < Year(T[ord[n - 1]].date)}}
        Integrity(a) ==
            [Finding("critical", "integrity", NULLSTR) EXCEPT
                !.date = a[1], !.prev_date = a[2]]
    IN UNION {IF Anomalies(ord) = {} THEN {<<>>}
              ELSE {<<Integrity(a)>> : a \in Anomalies(ord)} :
              ord \in ByRowId}

\* variant: two equal sessions are enough (rn <= 2, COUNT(*) >= 2)
stagnated_two_sessions(T, exercise) ==
    LET loaded == LoadedRows(T, exercise)
        Of(e) == Where(loaded, LAMBDA r : r.exercise = e)
        max_val(e, d) == SqlMax(Where(Of(e), LAMBDA r : r.date = d), LoadOf)
        Dates(e) == Column(Of(e), LAMBDA r : r.date)
        Latest2(e) ==
            {d \in Dates(e) : Cardinality({x \in Dates(e) : x > d}) < 2}
    IN {e \in Column(loaded, LAMBDA r : r.exercise) :
          /\ Cardinality(Latest2(e)) >= 2
          /\ \A d1, d2 \in Latest2(e) : max_val(e, d1) = max_val(e, d2)}

\* 1. stagnation_query: per exercise and date MAX(COALESCE(weight_kg,
\* machine_level)), the 3 latest dates (rn <= 3), grouped by value,
\* HAVING COUNT(*) >= 3
stagnated(T, exercise) ==
    LET loaded == LoadedRows(T, exercise)
        Of(e) == Where(loaded, LAMBDA r : r.exercise = e)
        max_val(e, d) == SqlMax(Where(Of(e), LAMBDA r : r.date = d), LoadOf)
        Dates(e) == Column(Of(e), LAMBDA r : r.date)
        Latest3(e) ==
            {d \in Dates(e) : Cardinality({x \in Dates(e) : x > d}) < 3}
    IN {e \in Column(loaded, LAMBDA r : r.exercise) :
          /\ Cardinality(Latest3(e)) >= 3
          /\ \A d1, d2 \in Latest3(e) : max_val(e, d1) = max_val(e, d2)}

\* variant threshold: max_val >= min_val * 1.05
progressed_at_least(T, exercise, today) ==
    LET loaded == LoadedRows(T, exercise)
        Recent(e) == Where(loaded, LAMBDA r : r.exercise = e
                                              /\ r.date >= today - 30)
    IN {e \in Column(loaded, LAMBDA r : r.exercise) :
          /\ Recent(e) # <<>>
          /\ 100 * SetMax(Column(Recent(e), LoadOf))
                >= 105 * SetMin(Column(Recent(e), LoadOf))}

\* 2. progress_query: MIN and MAX of the load FILTERed to
\* date >= current_date - 30 days, kept WHERE max_val > min_val * 1.05
progressed(T, exercise, today) ==
    LET loaded == LoadedRows(T, exercise)
        Recent(e) == Where(loaded, LAMBDA r : r.exercise = e
                                              /\ r.date >= today - 30)
    IN {e \in Column(loaded, LAMBDA r : r.exercise) :
          /\ Recent(e) # <<>>
          /\ 100 * SetMax(Column(Recent(e), LoadOf))
                > 105 * SetMin(Column(Recent(e), LoadOf))}

\* variant threshold: HAVING AVG(rpe) >= 9
high_rpe_at_least(T, exercise, today) ==
    LET tired == Where(T, LAMBDA r : r.date >= today - 7 /\ r.rpe # NULL
                                      /\ MatchesFilter(r, exercise))
        avg_rpe(e) == SqlAvg(Where(tired, LAMBDA r : r.exercise = e),
                             LAMBDA r : r.rpe)
    IN {e \in Column(tired, LAMBDA r : r.exercise) :
          avg_rpe(e)[1] >= 9 * avg_rpe(e)[2]}

\* 3. rpe_query: AVG(rpe) per exercise over date >= current_date - 7 days
\* and rpe IS NOT NULL, HAVING AVG(rpe) > 9
high_rpe(T, exercise, today) ==
    LET tired == Where(T, LAMBDA r : r.date >= today - 7 /\ r.rpe # NULL
                                      /\ MatchesFilter(r, exercise))
        avg_rpe(e) == SqlAvg(Where(tired, LAMBDA r : r.exercise = e),
                             LAMBDA r : r.rpe)
    IN {e \in Column(tired, LAMBDA r : r.exercise) :
          avg_rpe(e)[1] > 9 * avg_rpe(e)[2]}

\* variant: the same limit with and without an exercise
insight_limit_always_five(exercise) == 5

\* limit = 3 if exercise else 5
insight_limit(exercise) == IF Given(exercise) THEN 3 ELSE 5

\* the lists a rule can append for the exercises in names: fetchall() of a
\* query with no ORDER BY returns them in any order
FindingLists(type, category, names) ==
    Arrangements({Finding(type, category, e) : e \in names},
                 LAMBDA a, b : FALSE)

InsightRules == {"integrity", "stagnation", "progress", "fatigue"}

\* get_automated_insights when the queries of the rules in faults raise:
\* the integrity, progress and fatigue queries run inside try/except and a
\* failure appends nothing; the stagnation query runs outside any try and its
\* exception leaves the function
insights_with_faults(T, exercise, today, faults) ==
    IF "stagnation" \in faults THEN {[raised |-> TRUE, value |-> <<>>]}
    ELSE {[raised |-> FALSE,
           value |-> Take(a \o b \o c \o d, insight_limit(exercise))] :
            a \in IF "integrity" \in faults THEN {<<>>}
                  ELSE integrity_findings(T),
            b \in FindingLists("warning", "stagnation",
                               stagnated(T, exercise)),
            c \in IF "progress" \in faults THEN {<<>>}
                  ELSE FindingLists("success", "progress",
                                    progressed(T, exercise, today)),
            d \in IF "fatigue" \in faults THEN {<<>>}
                  ELSE FindingLists("warning", "fatigue",
                                    high_rpe(T, exercise, today))}

\* get_automated_insights: every list the four queries can produce when no
\* query raises
get_automated_insights(T, exercise, today) ==
    {r.value : r \in insights_with_faults(T, exercise, today, {})}

(* --------------------------- responses --------------------------------- *)
Idle == [at |-> "idle", rows |-> <<>>, old |-> <<>>]

\* the callers that share the engine object
Callers == {1, 2}

\* a caller outside log_workout, and one that has read MAX(row_id) and has
\* its INSERT still to run
NotLogging == [at |-> "idle", entry |-> <<>>, next_id |-> NULL]

\* no get_overview_metrics under way; at names the statement to run next,
\* table is the value of active_table the first statement was built with and
\* single tells whether every statement since was built with the same value
NoOverview ==
    [at |-> "idle", today |-> NULL, latest_date |-> NULL, freq |-> NULL,
     vol |-> NULL, weak_count |-> NULL, table |-> NULLSTR, single |-> TRUE]

\* calls: the engine calls under way, statement by statement
NoCalls == [log |-> [c \in Callers |-> NotLogging], overview |-> NoOverview]

\* during: the answer is that of a read of training_history that ran
\* between the DELETE and the INSERT of an import
Response(op, status, arg, value) ==
    [op |-> op, status |-> status, arg |-> arg, value |-> value,
     during |-> FALSE]

(* ------------------------------ _init_db ------------------------------- *)
\* contents of data/gym_data.csv at start-up; no file is the empty list with
\* exists = FALSE
SeedFiles ==
    {[exists |-> FALSE, rows |-> <<>>]}
    \cup {[exists |-> TRUE, rows |-> <<r>>] :
             r \in {c \in CsvRows : c.exercise = "Leg Press" \/ ~CsvRowOk(c)}}

\* both tables are created empty; the seed file, when present, is loaded into
\* training_history and then demo_training_history, and the first failing
\* INSERT ends the loop
Init ==
    \E seed \in SeedFiles :
        /\ training_history =
              IF seed.exists /\ CsvLoads(seed.rows)
              THEN InsertFromCsv(seed.rows) ELSE <<>>
        /\ demo_training_history =
              IF seed.exists /\ CsvLoads(seed.rows)
              THEN InsertFromCsv(seed.rows) ELSE <<>>
        /\ weight_history = <<>>
        /\ active_table = "training_history"
        /\ resp = Response("init", 0, <<>>, <<>>)
        /\ imp = Idle
        /\ calls = NoCalls
    /\ calls = NoCalls

\* variant handler: an import also selects the user table
route_import_data_selecting_user_table ==
    \E file \in Uploads :
        /\ imp.at = "idle"
        /\ IF ~EndsWithCsv(file.filename)
           THEN /\ resp' = Response("import_data", 400, file, <<>>)
                /\ UNCHANGED training_history
           ELSE LET r == import_user_data(training_history, file.rows)
                IN /\ training_history' = r.table
                   /\ resp' = IF r.raised
                              THEN Response("import_data", 500, file, <<>>)
                              ELSE Response("import_data", 200, file, r.rows)
        /\ active_table' = "training_history"
        /\ UNCHANGED <<demo_training_history, weight_history, imp, calls>>

(* --------------------- handlers of routers/data.py --------------------- *)
\* POST /data/import
route_import_data ==
    \E file \in Uploads :
        /\ imp.at = "idle"
        /\ IF ~EndsWithCsv(file.filename)
           THEN /\ resp' = Response("import_data", 400, file, <<>>)
                /\ UNCHANGED training_history
           ELSE LET r == import_user_data(training_history, file.rows)
                IN /\ training_history' = r.table
                   /\ resp' = IF r.raised
                              THEN Response("import_data", 500, file, <<>>)
                              ELSE Response("import_data", 200, file, r.rows)
        /\ UNCHANGED <<demo_training_history, weight_history, active_table,
                       imp, calls>>

\* POST /data/demo
route_toggle_demo ==
    \E enabled \in BOOLEAN :
        /\ active_table' = toggle_demo_mode(enabled)
        /\ resp' = Response("toggle_demo", 200, enabled,
                            IF enabled THEN "demo" ELSE "user")
        /\ UNCHANGED <<store, imp, calls>>

\* variant handler: the row goes to the table the read-selector names
route_log_workout_active_table ==
    \E entry \in Entries :
        /\ Len(TableOf(active_table)) < MaxRows
        /\ IF active_table = "training_history"
           THEN /\ training_history' = log_workout(training_history, entry)
                /\ UNCHANGED demo_training_history
           ELSE /\ demo_training_history' =
                      log_workout(demo_training_history, entry)
                /\ UNCHANGED training_history
        /\ resp' = Response("log_workout", 200, entry, <<>>)
        /\ UNCHANGED <<weight_history, active_table, imp, calls>>

\* POST /data/log
route_log_workout ==
    \E entry \in Entries :
        /\ Len(training_history) < MaxRows
        /\ training_history' = log_workout(training_history, entry)
        /\ resp' = Response("log_workout", 200, entry, <<>>)
        /\ UNCHANGED <<demo_training_history, weight_history, active_table,
                       imp, calls>>

(* -------------------- handlers of routers/metrics.py ------------------- *)
\* POST /metrics/weight
route_log_weight ==
    \E entry \in WeightEntries :
        /\ weight_history' =
              log_weight(weight_history, entry.date, entry.weight_kg)
        /\ resp' = Response("log_weight", 200, entry, <<>>)
        /\ UNCHANGED <<training_history, demo_training_history, active_table,
                       imp, calls>>

\* exercise arguments offered to the reads that take one
ExerciseArgs == {NoExercise, "Bench"}
TrendArgs ==
    {[metric |-> m, exercise |-> NoExercise] :
        m \in Metrics \cup {"one_rep_max"}}
    \cup {[metric |-> "volume_load", exercise |-> "Bench"]}

\* variant: a read puts the selector back on the user table
Read_selecting_user_table(op, arg, value) ==
    /\ resp' = [Response(op, 200, arg, value) EXCEPT
                    !.during = (imp.at = "deleted"
                                /\ active_table = "training_history")]
    /\ active_table' = "training_history"
    /\ UNCHANGED <<store, imp, calls>>

\* a read leaves every table and the selector alone and answers with value
Read(op, arg, value) ==
    /\ resp' = [Response(op, 200, arg, value) EXCEPT
                    !.during = (imp.at = "deleted"
                                /\ active_table = "training_history")]
    /\ UNCHANGED <<store, active_table, imp, calls>>

\* engine call get_latest_date (used by get_overview_metrics)
call_get_latest_date ==
    \E today \in Todays :
        Read("get_latest_date", today,
             get_latest_date(TableOf(active_table), today))

\* GET /metrics/overview
route_get_overview ==
    \E today \in Todays :
        Read("get_overview", today,
             get_overview_metrics(TableOf(active_table), today, active_table))

\* GET /metrics/trends
route_get_trends ==
    \E arg \in TrendArgs :
        Read("get_trends", arg,
             get_trends(TableOf(active_table), arg.metric, arg.exercise))

\* GET /metrics/exercises
route_get_exercises ==
    Read("get_exercises", <<>>, get_exercises(TableOf(active_table)))

\* GET /metrics/exercise-stats/{exercise_name}
route_get_exercise_stats ==
    \E exercise \in {"Bench", "Squat"} :
        Read("get_exercise_stats", exercise,
             get_exercise_stats(TableOf(active_table), exercise))

\* GET /metrics/insights
route_get_insights ==
    \E exercise \in ExerciseArgs, today \in Todays :
        \E findings \in
              get_automated_insights(TableOf(active_table), exercise, today) :
            Read("get_insights", [exercise |-> exercise, today |-> today],
                 findings)

\* GET /metrics/weight/history
route_get_weight_history ==
    Read("get_weight_history", <<>>, get_weight_history(weight_history))

\* engine call get_progression_analysis (context of the coaching agent)
call_get_progression_analysis ==
    \E result \in get_progression_analysis(TableOf(active_table)) :
        Read("get_progression_analysis", <<>>, result)

\* engine call get_recent_history(limit=30) (context of the coaching agent)
call_get_recent_history ==
    \E result \in get_recent_history(TableOf(active_table), 30) :
        Read("get_recent_history", 30, result)

Reads ==
    \/ call_get_latest_date
    \/ route_get_overview
    \/ route_get_trends
    \/ route_get_exercises
    \/ route_get_exercise_stats
    \/ route_get_insights
    \/ route_get_weight_history
    \/ call_get_progression_analysis
    \/ call_get_recent_history

Next ==
    \/ route_import_data
    \/ route_toggle_demo
    \/ route_log_workout
    \/ route_log_weight
    \/ Reads

Spec == Init /\ [][Next]_vars

(* ---------------- import_user_data, statement by statement ------------- *)
\* The engine object is one shared instance and import_user_data issues its
\* statements one by one on the shared connection, each committed on its
\* own: another caller of the engine can run between them.

\* POST /data/import up to and including DELETE FROM training_history
import_delete_statement ==
    \E file \in Uploads :
        /\ imp.at = "idle"
        /\ EndsWithCsv(file.filename)
        /\ Len(file.rows) > 0
        /\ training_history' = DeleteAll(training_history)
        /\ imp' = [at |-> "deleted", rows |-> file.rows,
                   old |-> training_history]
        /\ UNCHANGED <<demo_training_history, weight_history, active_table,
                       resp, calls>>

\* the rest of POST /data/import: the INSERT ... SELECT, COUNT(*), the answer
import_insert_statement ==
    /\ imp.at = "deleted"
    /\ LET ins == InsertSelect(training_history, imp.rows)
           file == [filename |-> CsvName, rows |-> imp.rows]
       IN /\ training_history' = ins.table
          /\ resp' = IF ins.raised
                     THEN Response("import_data", 500, file, <<>>)
                     ELSE Response("import_data", 200, file,
                                   SqlCount(ins.table))
    /\ imp' = Idle
    /\ UNCHANGED <<demo_training_history, weight_history, active_table,
                   calls>>

\* log_workout is offered only between imports here
NextConc ==
    \/ import_delete_statement
    \/ import_insert_statement
    \/ route_toggle_demo
    \/ (imp.at = "idle" /\ route_log_workout)
    \/ Reads

SpecConc == Init /\ [][NextConc]_vars

(* ------------------ log_workout, statement by statement ----------------- *)
\* the INSERT of log_workout with the row_id computed before it
insert_workout(T, id, entry) ==
    Append(T, [row_id |-> id,
               date |-> entry.date,
               workout |-> entry.workout,
               exercise |-> entry.exercise,
               reps |-> entry.reps,
               weight_kg |-> entry.weight_kg,
               machine_level |-> NULL,
               rpe |-> entry.rpe])

\* the rows written and the rows about to be written
RowsInProgress ==
    Len(training_history)
    + Cardinality({c \in Callers : calls.log[c].at = "insert"})

\* first statement of log_workout for caller c: SELECT MAX(row_id), next_id
log_workout_select_max(c) ==
    /\ calls.log[c].at = "idle"
    /\ RowsInProgress < MaxRows
    /\ \E entry \in Entries :
          calls' = [calls EXCEPT !.log[c] =
                      [at |-> "insert", entry |-> entry,
                       next_id |-> next_id(training_history)]]
    /\ UNCHANGED <<store, active_table, resp, imp>>

\* second statement of log_workout for caller c: the INSERT, and the answer
\* of POST /data/log
log_workout_insert(c) ==
    /\ calls.log[c].at = "insert"
    /\ training_history' = insert_workout(training_history,
                                          calls.log[c].next_id,
                                          calls.log[c].entry)
    /\ resp' = Response("log_workout", 200, calls.log[c].entry, <<>>)
    /\ calls' = [calls EXCEPT !.log[c] = NotLogging]
    /\ UNCHANGED <<demo_training_history, weight_history, active_table, imp>>

NextAppends ==
    \/ \E c \in Callers : log_workout_select_max(c)
    \/ \E c \in Callers : log_workout_insert(c)

SpecAppends == Init /\ [][NextAppends]_vars

(* ------------- the read rules over histories of set-entries ------------- *)
\* set-entries of a training log in the order they were written: two
\* squat sessions followed by an entry dated in the previous year, a heavier
\* set on an earlier day, bench sets at 100, 105 and 106, a machine set
LoggedSets ==
    << [date |-> 8, workout |-> "Leg Day", exercise |-> "Squat",
        reps |-> 5, weight_kg |-> 106, machine_level |-> NULL, rpe |-> 10],
       [date |-> 5, workout |-> "Leg Day", exercise |-> "Squat",
        reps |-> 5, weight_kg |-> 100, machine_level |-> NULL, rpe |-> 10],
       [date |-> 9, workout |-> "Weak Point Day", exercise |-> "Squat",
        reps |-> NULL, weight_kg |-> 106, machine_level |-> NULL,
        rpe |-> NULL],
       [date |-> 10, workout |-> "Leg Day", exercise |-> "Squat",
        reps |-> 3, weight_kg |-> 106, machine_level |-> NULL, rpe |-> 9],
       [date |-> 9, workout |-> "Weak Point Day", exercise |-> "Squat",
        reps |-> 2, weight_kg |-> 110, machine_level |-> NULL, rpe |-> NULL],
       [date |-> 11, workout |-> "Push", exercise |-> "Bench",
        reps |-> 8, weight_kg |-> 100, machine_level |-> NULL, rpe |-> 10],
       [date |-> 6, workout |-> "Push", exercise |-> "Bench",
        reps |-> 8, weight_kg |-> 106, machine_level |-> NULL, rpe |-> NULL],
       [date |-> 11, workout |-> "Push", exercise |-> "Bench",
        reps |-> NULL, weight_kg |-> 105, machine_level |-> NULL, rpe |-> 8],
       [date |-> 7, workout |-> "Weak Point Legs", exercise |-> "Leg Press",
        reps |-> 12, weight_kg |-> NULL, machine_level |-> 12, rpe |-> 10] >>

\* the table holding the entries of LoggedSets picked by S, written in that
\* order: row_id 1, 2, ...
HistoryOf(S) ==
    LET picked == Ascending(S)
    IN [k \in 1..Len(picked) |->
          [row_id |-> k,
           date |-> LoggedSets[picked[k]].date,
           workout |-> LoggedSets[picked[k]].workout,
           exercise |-> LoggedSets[picked[k]].exercise,
           reps |-> LoggedSets[picked[k]].reps,
           weight_kg |-> LoggedSets[picked[k]].weight_kg,
           machine_level |-> LoggedSets[picked[k]].machine_level,
           rpe |-> LoggedSets[picked[k]].rpe]]

Histories == {HistoryOf(S) : S \in SUBSET (1..Len(LoggedSets))}

\* the demo partition: empty, or one set logged later than every user entry
DemoHistories ==
    {<<>>,
     <<[row_id |-> 1, date |-> 20, workout |-> "Weak Point Day",
        exercise |-> "Bench", reps |-> 10, weight_kg |-> 50,
        machine_level |-> NULL, rpe |-> 10]>>}

InitHistories ==
    /\ training_history \in Histories
    /\ demo_training_history \in DemoHistories
    /\ weight_history = <<>>
    /\ active_table = "training_history"
    /\ resp = Response("init", 0, <<>>, <<>>)
    /\ imp = Idle
    /\ calls = NoCalls

\* the values of current_date when insights is called: before the last
\* entries were dated, right after them, and a month later
InsightDays == {9, 12, 40}

\* the calls of get_automated_insights: the optional exercise, the value of
\* current_date, and the rules whose query raises
InsightCalls ==
    {[exercise |-> e, today |-> t, faults |-> {}] :
        e \in {NoExercise, "Squat", "Bench"}, t \in InsightDays}
    \cup {[exercise |-> NoExercise, today |-> 12, faults |-> {rule}] :
            rule \in InsightRules}

\* GET /metrics/insights with a query that may raise: an exception leaving
\* get_automated_insights leaves the handler too and is answered with 500
route_get_insights_raising ==
    \E call \in InsightCalls :
        \E r \in insights_with_faults(TableOf(active_table), call.exercise,
                                      call.today, call.faults) :
            /\ resp' = Response("get_insights",
                                IF r.raised THEN 500 ELSE 200, call, r.value)
            /\ UNCHANGED <<store, active_table, imp, calls>>

NextHistories ==
    \/ route_toggle_demo
    \/ route_get_insights_raising
    \/ route_get_overview
    \/ call_get_latest_date

SpecHistories == InitHistories /\ [][NextHistories]_vars

(* ============================ properties =============================== *)
RowIds(T) == {T[i].row_id : i \in 1..Len(T)}

\* the typed value a CSV cell stands for
CellIs(cell, texts, v) ==
    \/ cell = "" /\ v = NULL
    \/ cell \in DOMAIN texts /\ v = texts[cell]

\* C1: an import that fails on some row reports an error and leaves
\* training_history with exactly the rows, row_id included, it held before.
C1_ImportAllOrNothing ==
    [][(resp'.op = "import_data" /\ resp'.status = 500)
         => training_history' = training_history]_vars

\* C3: log_workout gives the new row the row_id (largest row_id of
\* training_history) + 1, and 1 when the table is empty; right after a
\* successful import of N rows that is N + 1.
C3_AppendNextId ==
    [][resp'.op = "log_workout" =>
         LET new == training_history'[Len(training_history')]
         IN /\ new.row_id = IF training_history = <<>> THEN 1
                            ELSE SetMax(RowIds(training_history)) + 1
            /\ (resp.op = "import_data" /\ resp.status = 200)
                  => new.row_id = Len(resp.arg.rows) + 1]_vars

C3_Witness ==
    /\ resp.op = "log_workout"
    /\ Len(training_history) = 3
    /\ training_history[3].row_id = 3
    /\ training_history[2].workout = "Push"

\* C4: whichever table is selected, log_workout adds exactly one row at the
\* end of training_history and leaves demo_training_history, weight_history
\* and active_table as they were.
C4_AppendFrame ==
    [][resp'.op = "log_workout" =>
         /\ Len(training_history') = Len(training_history) + 1
         /\ SubSeq(training_history', 1, Len(training_history))
               = training_history
         /\ demo_training_history' = demo_training_history
         /\ weight_history' = weight_history
         /\ active_table' = active_table]_vars

C4_Witness ==
    /\ resp.op = "log_workout"
    /\ active_table = "demo_training_history"
    /\ Len(training_history) = Len(demo_training_history) + 1

\* C5: in both set-entry tables the row_ids are pairwise distinct and follow
\* the write sequence: a row written later carries a larger row_id than every
\* row written before it.
C5_RowIdFollowsWrites ==
    \A n \in Tables :
        \A i, j \in 1..Len(TableOf(n)) :
            i < j => TableOf(n)[i].row_id < TableOf(n)[j].row_id

C5_Witness ==
    /\ resp.op = "log_workout"
    /\ Len(training_history) = 3
    /\ training_history[1].workout = "Push"
    /\ training_history[3].date < training_history[1].date
    /\ Len(weight_history) > 0

\* C6: a successful import of N rows leaves training_history with exactly
\* those N rows, the k-th input row carrying row_id = k.
C6_ImportLoadsInOrder ==
    [][(resp'.op = "import_data" /\ resp'.status = 200) =>
         LET rows == resp'.arg.rows
             T == training_history'
         IN /\ Len(T) = Len(rows)
            /\ resp'.value = Len(rows)
            /\ \A k \in 1..Len(rows) :
                  /\ T[k].row_id = k
                  /\ CellIs(rows[k].date, DateText, T[k].date)
                  /\ T[k].workout = rows[k].workout
                  /\ T[k].exercise = rows[k].exercise
                  /\ CellIs(rows[k].reps, Numeral, T[k].reps)
                  /\ CellIs(rows[k].weight_kg, Numeral, T[k].weight_kg)
                  /\ CellIs(rows[k].machine_level, Numeral,
                            T[k].machine_level)
                  /\ CellIs(rows[k].rpe, Numeral, T[k].rpe)]_vars

C6_Witness ==
    /\ resp.op = "import_data"
    /\ resp.status = 200
    /\ Len(resp.arg.rows) = 2
    /\ training_history[1].exercise = "Leg Press"
    /\ training_history[2].exercise = "Bench"

WeightsOn(W, d) == {i \in 1..Len(W) : W[i].date = d}
WeightsOff(W, d) == {W[i] : i \in {k \in 1..Len(W) : W[k].date # d}}

\* C7: weight_history holds at most one entry per date, and after log_weight
\* the entry of that date carries the weight just written while the entries
\* of the other dates are the ones held before.
C7_WeightUpsert ==
    [][/\ \A i, j \in 1..Len(weight_history') :
             weight_history'[i].date = weight_history'[j].date => i = j
       /\ resp'.op = "log_weight" =>
             /\ \E i \in 1..Len(weight_history') :
                   /\ WeightsOn(weight_history', resp'.arg.date) = {i}
                   /\ weight_history'[i].weight_kg = resp'.arg.weight_kg
             /\ WeightsOff(weight_history', resp'.arg.date)
                   = WeightsOff(weight_history, resp'.arg.date)]_vars

C7_Witness ==
    /\ resp.op = "log_weight"
    /\ Len(weight_history) = 2
    /\ weight_history[1] = [date |-> 9, weight_kg |-> 79]
    /\ weight_history[2] = [date |-> 2, weight_kg |-> 80]
    /\ resp.arg = [date |-> 9, weight_kg |-> 79]

PartitionReads ==
    {"get_latest_date", "get_overview", "get_trends", "get_exercises",
     "get_exercise_stats", "get_insights", "get_progression_analysis"}

\* C2: a read of training_history made while an import of it is in progress
\* scans either the complete old rows or the complete new rows, never an
\* empty or partly loaded table.
C2_ReadsSeeOldOrNew ==
    (resp.op \in PartitionReads /\ resp.during)
        => training_history \in
              {imp.old, InsertSelect(<<>>, imp.rows).table}

\* lexicographic order of ISO dates <<year, month, day>>
IsoLess(a, b) ==
    \/ a[1] < b[1]
    \/ a[1] = b[1] /\ a[2] < b[2]
    \/ a[1] = b[1] /\ a[2] = b[2] /\ a[3] < b[3]

\* C8: get_weight_history returns every stored weight entry exactly once, in
\* strictly ascending date order, whatever order the entries were written in.
C8_WeightHistoryAscending ==
    resp.op = "get_weight_history" =>
        LET h == resp.value
            W == weight_history
        IN /\ Len(h) = Len(W)
           /\ \A i \in 1..Len(W) :
                 Cardinality({k \in 1..Len(h) :
                     h[k] = [date |-> IsoDate(W[i].date),
                             weight_kg |-> W[i].weight_kg]}) = 1
           /\ \A k \in 1..(Len(h) - 1) : IsoLess(h[k].date, h[k + 1].date)

C8_Witness ==
    /\ resp.op = "get_weight_history"
    /\ Len(weight_history) = 2
    /\ weight_history[1].date > weight_history[2].date
    /\ resp.value[1].date = <<2023, 12, 27>>
    /\ resp.value[2].date = <<2024, 1, 3>>

\* the table the flag of a toggle_demo request names
Selected(enabled) ==
    IF enabled THEN "demo_training_history" ELSE "training_history"

DatesOf(T) == {T[i].date : i \in 1..Len(T)}
SeqRange(q) == {q[i] : i \in 1..Len(q)}

\* C9: toggle_demo changes only active_table, to the table its flag names;
\* no other operation changes active_table, and every read in between is
\* computed from the rows of the table so selected.
C9_SelectOnlySelects ==
    [][/\ resp'.op = "toggle_demo" =>
             /\ store' = store
             /\ active_table' = Selected(resp'.arg)
       /\ resp'.op # "toggle_demo" => active_table' = active_table
       /\ resp'.op = "get_latest_date" =>
             resp'.value = IF TableOf(active_table) = <<>> THEN resp'.arg
                           ELSE SetMax(DatesOf(TableOf(active_table)))
       /\ resp'.op = "get_exercises" =>
             SeqRange(resp'.value) =
                {TableOf(active_table)[i].exercise :
                    i \in 1..Len(TableOf(active_table))} \ {NULLSTR, ""}
       /\ resp'.op = "get_overview" =>
             resp'.value = get_overview_metrics(TableOf(active_table),
                                                resp'.arg, active_table)
       /\ resp'.op = "get_trends" =>
             resp'.value = get_trends(TableOf(active_table),
                                      resp'.arg.metric, resp'.arg.exercise)
       /\ resp'.op = "get_progression_analysis" =>
             resp'.value \in get_progression_analysis(TableOf(active_table))
       /\ resp'.op = "get_insights" =>
             resp'.value \in
                get_automated_insights(TableOf(active_table),
                                       resp'.arg.exercise, resp'.arg.today)
      ]_vars

C9_Witness ==
    /\ resp.op = "get_exercises"
    /\ active_table = "demo_training_history"
    /\ resp.value = <<"Leg Press">>
    /\ Len(training_history) = 2
    /\ training_history[1].exercise = "Squat"

\* C10: every read of an empty table answers normally with zero or empty
\* results; get_overview answers weekly frequency 0, volume load 0 and weak
\* point count 0.
C10_EmptyReads ==
    /\ (resp.op \in PartitionReads /\ TableOf(active_table) = <<>>) =>
          /\ resp.status = 200
          /\ resp.op = "get_latest_date" => resp.value = resp.arg
          /\ resp.op = "get_overview" =>
                /\ resp.value.weekly_frequency = 0
                /\ resp.value.total_volume_load_current_week = 0
                /\ resp.value.active_weak_points_count = 0
          /\ resp.op \in {"get_trends", "get_exercises", "get_insights"} =>
                resp.value = <<>>
          /\ resp.op = "get_exercise_stats" =>
                /\ resp.value.max_weight = 0
                /\ resp.value.max_level = 0
                /\ resp.value.average_rpe = ZeroAvg
                /\ resp.value.total_volume = 0
                /\ resp.value.total_sets = 0
          /\ resp.op = "get_progression_analysis" =>
                /\ resp.value.top_progressions = <<>>
                /\ resp.value.recent_workout_summaries = <<>>
    /\ (resp.op = "get_weight_history" /\ weight_history = <<>>) =>
          /\ resp.status = 200
          /\ resp.value = <<>>

C10_Witness ==
    /\ resp.op = "get_overview"
    /\ active_table = "training_history"
    /\ training_history = <<>>
    /\ Len(demo_training_history) = 1
    /\ weight_history # <<>>

(* ------------------- trends over histories of set-entries --------------- *)
\* the calls of get_trends: the four metrics and two names that are none of
\* them, with no exercise, an exercise of the log, and one that is not in it
TrendCalls ==
    {[metric |-> m, exercise |-> e] :
        m \in Metrics \cup {"one_rep_max", "Volume_Load"},
        e \in {NoExercise, "Squat", "Bench", "Deadlift"}}

\* GET /metrics/trends: the enum of the Query declaration documents the four
\* names and does not reject another one
route_get_trends_filtered ==
    \E call \in TrendCalls :
        Read("get_trends", call,
             get_trends(TableOf(active_table), call.metric, call.exercise))

\* set-entries of a log in which exercises share a day, an exercise has two
\* sets on one day, sets lack reps or weight_kg, and an earlier day is
\* written after a later one
TrendSets ==
    << [date |-> 8, workout |-> "Full Body", exercise |-> "Squat",
        reps |-> 5, weight_kg |-> 100, machine_level |-> NULL, rpe |-> 8],
       [date |-> 8, workout |-> "Full Body", exercise |-> "Bench",
        reps |-> 8, weight_kg |-> 60, machine_level |-> NULL, rpe |-> 9],
       [date |-> 8, workout |-> "Full Body", exercise |-> "Squat",
        reps |-> 3, weight_kg |-> 110, machine_level |-> NULL, rpe |-> 10],
       [date |-> 7, workout |-> "Full Body", exercise |-> "Squat",
        reps |-> NULL, weight_kg |-> 100, machine_level |-> NULL,
        rpe |-> NULL],
       [date |-> 7, workout |-> "Full Body", exercise |-> "Bench",
        reps |-> 10, weight_kg |-> NULL, machine_level |-> NULL,
        rpe |-> NULL],
       [date |-> 5, workout |-> "Leg Day", exercise |-> "Squat",
        reps |-> 5, weight_kg |-> 90, machine_level |-> NULL, rpe |-> 7],
       [date |-> 9, workout |-> "Weak Point Legs", exercise |-> "Leg Press",
        reps |-> 12, weight_kg |-> NULL, machine_level |-> 12, rpe |-> 8],
       [date |-> 9, workout |-> "Push", exercise |-> "Bench",
        reps |-> 8, weight_kg |-> 65, machine_level |-> NULL, rpe |-> 9] >>

\* the table holding the entries of sets picked by S, written in that order
PickFrom(sets, S) ==
    LET picked == Ascending(S)
    IN [k \in 1..Len(picked) |->
          [row_id |-> k,
           date |-> sets[picked[k]].date,
           workout |-> sets[picked[k]].workout,
           exercise |-> sets[picked[k]].exercise,
           reps |-> sets[picked[k]].reps,
           weight_kg |-> sets[picked[k]].weight_kg,
           machine_level |-> sets[picked[k]].machine_level,
           rpe |-> sets[picked[k]].rpe]]

TrendHistories == {PickFrom(TrendSets, S) : S \in SUBSET (1..Len(TrendSets))}

InitTrends ==
    /\ training_history \in TrendHistories
    /\ demo_training_history \in DemoHistories
    /\ weight_history = <<>>
    /\ active_table = "training_history"
    /\ resp = Response("init", 0, <<>>, <<>>)
    /\ imp = Idle
    /\ calls = NoCalls

NextTrends ==
    \/ route_toggle_demo
    \/ route_get_trends_filtered

SpecTrends == InitTrends /\ [][NextTrends]_vars

(* ----------------- progression over histories of set-entries ----------- *)
\* for each of seven exercises a set on its first day and a set on its last
\* day: squat and bench both gain 10, row gains 5, press loses 5, curl gains
\* 2, lunge gains 1, dip stays at 20; a second, heavier squat set on the last
\* day closes the log
ProgressionSets ==
    << [date |-> 7, workout |-> "A", exercise |-> "Squat",
        reps |-> 5, weight_kg |-> 100, machine_level |-> NULL, rpe |-> 8],
       [date |-> 14, workout |-> "A", exercise |-> "Squat",
        reps |-> 5, weight_kg |-> 110, machine_level |-> NULL, rpe |-> 8],
       [date |-> 7, workout |-> "A", exercise |-> "Bench",
        reps |-> 5, weight_kg |-> 60, machine_level |-> NULL, rpe |-> 8],
       [date |-> 14, workout |-> "A", exercise |-> "Bench",
        reps |-> 5, weight_kg |-> 70, machine_level |-> NULL, rpe |-> 8],
       [date |-> 8, workout |-> "B", exercise |-> "Row",
        reps |-> 5, weight_kg |-> 50, machine_level |-> NULL, rpe |-> 8],
       [date |-> 15, workout |-> "B", exercise |-> "Row",
        reps |-> 5, weight_kg |-> 55, machine_level |-> NULL, rpe |-> 8],
       [date |-> 8, workout |-> "B", exercise |-> "Press",
        reps |-> 5, weight_kg |-> 40, machine_level |-> NULL, rpe |-> 8],
       [date |-> 15, workout |-> "B", exercise |-> "Press",
        reps |-> 5, weight_kg |-> 35, machine_level |-> NULL, rpe |-> 8],
       [date |-> 9, workout |-> "C", exercise |-> "Curl",
        reps |-> 5, weight_kg |-> 10, machine_level |-> NULL, rpe |-> 8],
       [date |-> 16, workout |-> "C", exercise |-> "Curl",
        reps |-> 5, weight_kg |-> 12, machine_level |-> NULL, rpe |-> 8],
       [date |-> 9, workout |-> "C", exercise |-> "Lunge",
        reps |-> 5, weight_kg |-> 30, machine_level |-> NULL, rpe |-> 8],
       [date |-> 16, workout |-> "C", exercise |-> "Lunge",
        reps |-> 5, weight_kg |-> 31, machine_level |-> NULL, rpe |-> 8],
       [date |-> 10, workout |-> "D", exercise |-> "Dip",
        reps |-> 5, weight_kg |-> 20, machine_level |-> NULL, rpe |-> 8],
       [date |-> 17, workout |-> "D", exercise |-> "Dip",
        reps |-> 5, weight_kg |-> 20, machine_level |-> NULL, rpe |-> 8],
       [date |-> 14, workout |-> "A", exercise |-> "Squat",
        reps |-> 1, weight_kg |-> 125, machine_level |-> NULL, rpe |-> 10] >>

\* the logs in which an exercise has no set, its first set only, or both
ProgressionHistories ==
    {PickFrom(ProgressionSets, S) :
        S \in {P \in SUBSET (1..Len(ProgressionSets)) :
                  \A k \in 1..7 : 2 * k \in P => 2 * k - 1 \in P}}

InitProgression ==
    /\ training_history \in ProgressionHistories
    /\ demo_training_history \in DemoHistories
    /\ weight_history = <<>>
    /\ active_table = "training_history"
    /\ resp = Response("init", 0, <<>>, <<>>)
    /\ imp = Idle
    /\ calls = NoCalls

NextProgression ==
    \/ route_toggle_demo
    \/ call_get_progression_analysis

SpecProgression == InitProgression /\ [][NextProgression]_vars

(* -------------- get_overview_metrics, statement by statement ------------ *)
\* the overview call under way after one more statement built with the
\* current value of active_table
OverviewAfter(at, field, value) ==
    [calls.overview EXCEPT
        !.at = at,
        ![field] = value,
        !.single = (calls.overview.single
                    /\ calls.overview.table = active_table)]

\* latest_date = self.get_latest_date()
overview_latest_date ==
    /\ calls.overview.at = "idle"
    /\ \E today \in Todays :
          calls' = [calls EXCEPT !.overview =
                      [NoOverview EXCEPT
                          !.at = "freq",
                          !.today = today,
                          !.latest_date =
                              get_latest_date(TableOf(active_table), today),
                          !.table = active_table]]
    /\ UNCHANGED <<store, active_table, resp, imp>>

\* freq = SELECT COUNT(DISTINCT date) FROM {self.active_table} ...
overview_frequency ==
    /\ calls.overview.at = "freq"
    /\ calls' = [calls EXCEPT !.overview =
                    OverviewAfter("vol", "freq",
                        week_frequency(TableOf(active_table),
                                       calls.overview.latest_date))]
    /\ UNCHANGED <<store, active_table, resp, imp>>

\* vol = SELECT SUM(weight_kg * reps) FROM {self.active_table} ...
overview_volume ==
    /\ calls.overview.at = "vol"
    /\ calls' = [calls EXCEPT !.overview =
                    OverviewAfter("weak", "vol",
                        week_volume(TableOf(active_table),
                                    calls.overview.latest_date))]
    /\ UNCHANGED <<store, active_table, resp, imp>>

\* weak_count = SELECT COUNT(*) FROM {self.active_table} ... ILIKE ...
overview_weak_points ==
    /\ calls.overview.at = "weak"
    /\ calls' = [calls EXCEPT !.overview =
                    OverviewAfter("return", "weak_count",
                        week_weak_points(TableOf(active_table),
                                         calls.overview.latest_date))]
    /\ UNCHANGED <<store, active_table, resp, imp>>

\* variant: the flag always reports the user table
overview_return_never_demo ==
    /\ calls.overview.at = "return"
    /\ resp' = Response("get_overview", 200,
                        [today |-> calls.overview.today,
                         table |-> calls.overview.table,
                         single |-> (calls.overview.single
                                     /\ calls.overview.table = active_table)],
                        [weekly_frequency |-> calls.overview.freq,
                         total_volume_load_current_week |-> calls.overview.vol,
                         active_weak_points_count |->
                             calls.overview.weak_count,
                         is_demo |-> FALSE])
    /\ calls' = [calls EXCEPT !.overview = NoOverview]
    /\ UNCHANGED <<store, active_table, imp>>

\* the return statement: the dict, with "is_demo": self.active_table == ...
overview_return ==
    /\ calls.overview.at = "return"
    /\ resp' = Response("get_overview", 200,
                        [today |-> calls.overview.today,
                         table |-> calls.overview.table,
                         single |-> (calls.overview.single
                                     /\ calls.overview.table = active_table)],
                        [weekly_frequency |-> calls.overview.freq,
                         total_volume_load_current_week |-> calls.overview.vol,
                         active_weak_points_count |->
                             calls.overview.weak_count,
                         is_demo |-> (active_table = "demo_training_history")])
    /\ calls' = [calls EXCEPT !.overview = NoOverview]
    /\ UNCHANGED <<store, active_table, imp>>

\* user logs with no entry, entries of the previous week only, and entries
\* of two weeks, some of them weak-point work
OverviewHistories == {PickFrom(LoggedSets, S) : S \in SUBSET {1, 2, 3, 9}}

InitOverview ==
    /\ training_history \in OverviewHistories
    /\ demo_training_history \in DemoHistories
    /\ weight_history = <<>>
    /\ active_table = "training_history"
    /\ resp = Response("init", 0, <<>>, <<>>)
    /\ imp = Idle
    /\ calls = NoCalls

\* another caller may select a table between any two statements
NextOverview ==
    \/ route_toggle_demo
    \/ overview_latest_date
    \/ overview_frequency
    \/ overview_volume
    \/ overview_weak_points
    \/ overview_return

SpecOverview == InitOverview /\ [][NextOverview]_vars

(* ---------------------- claims on the insight rules --------------------- *)
\* the findings of one category in a list of findings
OfCategory(list, category) ==
    {list[i] : i \in {j \in 1..Len(list) : list[j].category = category}}

\* the lists the call would return if every rule whose query raises were
\* skipped and every other rule contributed
SkippingFaults(T, call) ==
    {Take(a \o b \o c \o d, IF Given(call.exercise) THEN 3 ELSE 5) :
        a \in IF "integrity" \in call.faults THEN {<<>>}
              ELSE integrity_findings(T),
        b \in IF "stagnation" \in call.faults THEN {<<>>}
              ELSE FindingLists("warning", "stagnation",
                                stagnated(T, call.exercise)),
        c \in IF "progress" \in call.faults THEN {<<>>}
              ELSE FindingLists("success", "progress",
                                progressed(T, call.exercise, call.today)),
        d \in IF "fatigue" \in call.faults THEN {<<>>}
              ELSE FindingLists("warning", "fatigue",
                                high_rpe(T, call.exercise, call.today))}

\* C11: whichever one of the four rules raises, insights returns normally
\* (status 200) and its list holds the findings of the rules that did not
\* raise.  The stagnation query runs outside any try block, so this fails
\* when it is the stagnation rule that raises
C11_RulesFailureIsolated ==
    (resp.op = "get_insights" /\ resp.arg.faults # {}) =>
        /\ resp.status = 200
        /\ resp.value \in SkippingFaults(TableOf(active_table), resp.arg)

\* position of a finding's rule in the order the rules run
RuleRank ==
    ("integrity" :> 1) @@ ("stagnation" :> 2) @@ ("progress" :> 3)
    @@ ("fatigue" :> 4)

\* how many findings each rule emits for the call on table T
EmittedCount(T, call) ==
    ("integrity" :> IF integrity_findings(T) = {<<>>} THEN 0 ELSE 1)
    @@ ("stagnation" :> Cardinality(stagnated(T, call.exercise)))
    @@ ("progress" :> Cardinality(progressed(T, call.exercise, call.today)))
    @@ ("fatigue" :> Cardinality(high_rpe(T, call.exercise, call.today)))

\* the positions of a list holding a finding of the category
PositionsOf(list, category) ==
    {i \in 1..Len(list) : list[i].category = category}

\* a call of insights that returned its list with no query raising
InsightsAnswered ==
    /\ resp.op = "get_insights"
    /\ resp.status = 200
    /\ resp.arg.faults = {}

\* C12: the list insights returns is what the rules emit in the order
\* integrity, stagnation, progress, fatigue, cut to its first 5 elements
\* (3 with an exercise): never longer than the limit, never a later rule's
\* finding before an earlier rule's, and a finding is missing only when the
\* findings before it already fill the limit
C12_ConcatenatedAndCut ==
    InsightsAnswered =>
        LET list == resp.value
            limit == IF resp.arg.exercise = NoExercise THEN 5 ELSE 3
            emitted == EmittedCount(TableOf(active_table), resp.arg)
            total == emitted["integrity"] + emitted["stagnation"]
                     + emitted["progress"] + emitted["fatigue"]
        IN /\ Len(list) <= limit
           /\ Len(list) = IF total < limit THEN total ELSE limit
           /\ \A i, j \in 1..Len(list) :
                 i < j => RuleRank[list[i].category]
                            <= RuleRank[list[j].category]
           /\ \A i, j \in 1..Len(list) : list[i] = list[j] => i = j
           /\ \A rule \in InsightRules :
                 /\ Cardinality(PositionsOf(list, rule)) <= emitted[rule]
                 /\ Cardinality(PositionsOf(list, rule)) < emitted[rule] =>
                       /\ Len(list) = limit
                       /\ \A i \in 1..Len(list) :
                             RuleRank[list[i].category] <= RuleRank[rule]

\* seven findings are emitted and the first five are returned: the integrity
\* finding, the stagnation and progress findings and one fatigue finding
C12_Witness ==
    /\ InsightsAnswered
    /\ resp.arg.exercise = NoExercise
    /\ Len(resp.value) = 5
    /\ EmittedCount(TableOf(active_table), resp.arg)["fatigue"] = 3
    /\ Cardinality(PositionsOf(resp.value, "fatigue")) = 1
    /\ PositionsOf(resp.value, "integrity") = {1}

\* rows i and j of T are next to each other in the order of row_id, i first
AdjacentByRowId(T, i, j) ==
    /\ T[i].row_id < T[j].row_id
    /\ ~\E k \in 1..Len(T) :
          T[i].row_id < T[k].row_id /\ T[k].row_id < T[j].row_id

\* the pairs <<predecessor, successor>> of rows adjacent in row_id order
\* whose year goes down
YearRegressions(T) ==
    {p \in (1..Len(T)) \X (1..Len(T)) :
        /\ AdjacentByRowId(T, p[1], p[2])
        /\ Year(T[p[2]].date) < Year(T[p[1]].date)}

\* C13: insights holds a critical integrity finding if and only if two rows
\* of the active table adjacent in row_id order have year(successor.date) <
\* year(predecessor.date), and the finding cites such a pair; a later row
\* with an earlier date of the same year does not trigger it
C13_IntegrityIffYearRegression ==
    InsightsAnswered =>
        LET T == TableOf(active_table)
            found == OfCategory(resp.value, "integrity")
        IN /\ (found # {}) <=> (YearRegressions(T) # {})
           /\ \A f \in found :
                 /\ f.type = "critical"
                 /\ \E p \in YearRegressions(T) :
                       /\ f.date = T[p[2]].date
                       /\ f.prev_date = T[p[1]].date

\* a history with a same-year step back (day 10 then day 9) and a step back
\* into the previous year (day 8 then day 5): the finding cites the latter
C13_Witness ==
    /\ InsightsAnswered
    /\ active_table = "training_history"
    /\ \E i, j \in 1..Len(training_history) :
          /\ AdjacentByRowId(training_history, i, j)
          /\ training_history[i].date = 10
          /\ training_history[j].date = 9
    /\ Cardinality(YearRegressions(training_history)) = 1
    /\ \E f \in OfCategory(resp.value, "integrity") :
          f.date = 5 /\ f.prev_date = 8

\* C14: when several adjacent pairs step back a year, insights holds exactly
\* one integrity finding and it cites the first pair, the one whose
\* successor has the smallest row_id.  The query takes LIMIT 1 of a SELECT
\* DISTINCT with no ORDER BY, so the pair is any one of the distinct pairs
C14_IntegrityReportsFirstPair ==
    (InsightsAnswered
     /\ Cardinality(YearRegressions(TableOf(active_table))) >= 2) =>
        LET T == TableOf(active_table)
            first == CHOOSE p \in YearRegressions(T) :
                        \A q \in YearRegressions(T) :
                            T[p[2]].row_id <= T[q[2]].row_id
        IN /\ Cardinality(PositionsOf(resp.value, "integrity")) = 1
           /\ \A f \in OfCategory(resp.value, "integrity") :
                 /\ f.date = T[first[2]].date
                 /\ f.prev_date = T[first[1]].date

\* the value COALESCE(weight_kg, machine_level) of a row that has one
LoadValue(r) == IF r.weight_kg # NULL THEN r.weight_kg ELSE r.machine_level

\* the dates on which exercise e has a row with a load value
LoadDates(T, e) ==
    {T[i].date : i \in {k \in 1..Len(T) :
        /\ T[k].exercise = e
        /\ (T[k].weight_kg # NULL \/ T[k].machine_level # NULL)}}

\* the largest load value of exercise e on date d
DayMax(T, e, d) ==
    SetMax({LoadValue(T[i]) : i \in {k \in 1..Len(T) :
        /\ T[k].exercise = e
        /\ T[k].date = d
        /\ (T[k].weight_kg # NULL \/ T[k].machine_level # NULL)}})

\* exercise e has three most recent load dates d1 > d2 > d3 and its largest
\* loads on the three are equal
ThreeEqualSessions(T, e) ==
    \E d1, d2, d3 \in LoadDates(T, e) :
        /\ d1 > d2 /\ d2 > d3
        /\ \A d \in LoadDates(T, e) : d > d3 => d \in {d1, d2}
        /\ DayMax(T, e, d1) = DayMax(T, e, d2)
        /\ DayMax(T, e, d2) = DayMax(T, e, d3)

\* the exercises a call of insights looks at: all, or the one it names
InScope(call, e) == call.exercise = NoExercise \/ e = call.exercise

\* the exercises named in the rows of T
ExercisesIn(T) == {T[i].exercise : i \in 1..Len(T)}

\* C15: for every exercise the call looks at, insights holds a stagnation
\* warning naming it if and only if the exercise has at least 3 distinct
\* dates with a load and the per-date maxima of coalesce(weight_kg,
\* machine_level) on the 3 most recent of them are equal; at most one
\* stagnation finding names an exercise.  A finding the limit cut off is
\* the one exception to "if"
C15_StagnationIffThreeEqual ==
    InsightsAnswered =>
        LET T == TableOf(active_table)
            list == resp.value
            limit == IF resp.arg.exercise = NoExercise THEN 5 ELSE 3
            Named(e) == {i \in PositionsOf(list, "stagnation") :
                            list[i].exercise = e}
        IN /\ \A i \in PositionsOf(list, "stagnation") :
                 /\ list[i].type = "warning"
                 /\ InScope(resp.arg, list[i].exercise)
                 /\ ThreeEqualSessions(T, list[i].exercise)
           /\ \A e \in ExercisesIn(T) :
                 /\ Cardinality(Named(e)) <= 1
                 /\ (InScope(resp.arg, e) /\ ThreeEqualSessions(T, e)
                     /\ Len(list) < limit) => Named(e) # {}

\* squat at 106 on days 8, 9 and 10 and at 100 on day 5: the warning is given
C15_Witness ==
    /\ InsightsAnswered
    /\ active_table = "training_history"
    /\ LoadDates(training_history, "Squat") = {5, 8, 9, 10}
    /\ DayMax(training_history, "Squat", 5) # DayMax(training_history, "Squat", 8)
    /\ \E i \in PositionsOf(resp.value, "stagnation") :
          resp.value[i].exercise = "Squat"

\* the same history with a set of 110 added on day 9: no warning, not cut off
C15_Suppressed ==
    /\ InsightsAnswered
    /\ active_table = "training_history"
    /\ LoadDates(training_history, "Squat") = {8, 9, 10}
    /\ DayMax(training_history, "Squat", 9) = 110
    /\ Len(resp.value) < 3
    /\ PositionsOf(resp.value, "stagnation") = {}

\* the load values of the rows of exercise e dated from day lo to day hi
LoadsBetween(T, e, lo, hi) ==
    {LoadValue(T[i]) : i \in {k \in 1..Len(T) :
        /\ T[k].exercise = e
        /\ (T[k].weight_kg # NULL \/ T[k].machine_level # NULL)
        /\ lo <= T[k].date
        /\ T[k].date <= hi}}

\* max_val > min_val * 1.05 over a non-empty set of loads
SwingsOverFivePercent(loads) ==
    \E lo, hi \in loads : 100 * hi > 105 * lo

\* the positions of the list holding a finding of the category that names e
NamedAt(list, category, e) ==
    {i \in PositionsOf(list, category) : list[i].exercise = e}

\* C16: for every exercise the call looks at, insights holds a progress
\* finding naming it if and only if, over its rows dated within the 30 days
\* up to the current date, max_val > min_val * 1.05 for coalesce(weight_kg,
\* machine_level), whichever of the two is dated first.  The query bounds
\* the date from below only, so a row dated after the current date counts
C16_ProgressIffSwingInTrailing30 ==
    InsightsAnswered =>
        LET T == TableOf(active_table)
            list == resp.value
            limit == IF resp.arg.exercise = NoExercise THEN 5 ELSE 3
            Swing(e) == SwingsOverFivePercent(
                            LoadsBetween(T, e, resp.arg.today - 30,
                                         resp.arg.today))
        IN /\ \A i \in PositionsOf(list, "progress") :
                 /\ list[i].type = "success"
                 /\ InScope(resp.arg, list[i].exercise)
                 /\ Swing(list[i].exercise)
           /\ \A e \in ExercisesIn(T) :
                 (InScope(resp.arg, e) /\ Swing(e) /\ Len(list) < limit) =>
                    NamedAt(list, "progress", e) # {}

\* the progress rule as the query computes it: the same condition over the
\* rows dated on or after current_date - 30 days, with no upper end
ProgressIffSwingSince30DaysAgo ==
    InsightsAnswered =>
        LET T == TableOf(active_table)
            list == resp.value
            limit == IF resp.arg.exercise = NoExercise THEN 5 ELSE 3
            Swing(e) == SwingsOverFivePercent(
                            LoadsBetween(T, e, resp.arg.today - 30, 1000))
        IN /\ \A i \in PositionsOf(list, "progress") :
                 /\ list[i].type = "success"
                 /\ InScope(resp.arg, list[i].exercise)
                 /\ Swing(list[i].exercise)
           /\ \A e \in ExercisesIn(T) :
                 (InScope(resp.arg, e) /\ Swing(e) /\ Len(list) < limit) =>
                    NamedAt(list, "progress", e) # {}

\* bench at 100 and 105 within the window and nothing else: no finding
ProgressNotAtFivePercent ==
    /\ InsightsAnswered
    /\ resp.arg.today = 12
    /\ LoadsBetween(TableOf(active_table), "Bench", -18, 12) = {100, 105}
    /\ NamedAt(resp.value, "progress", "Bench") = {}
    /\ Len(resp.value) < 3

\* bench at 106 on day 6 and 100 on day 11, the maximum first: a finding
ProgressMaxBeforeMin ==
    /\ InsightsAnswered
    /\ resp.arg.today = 12
    /\ LoadsBetween(TableOf(active_table), "Bench", -18, 12) = {100, 106}
    /\ NamedAt(resp.value, "progress", "Bench") # {}

\* squat at 100 on day 5 and 106 on day 8, the minimum first: a finding
ProgressMinBeforeMax ==
    /\ InsightsAnswered
    /\ resp.arg.today = 12
    /\ LoadsBetween(TableOf(active_table), "Squat", -18, 12) = {100, 106}
    /\ NamedAt(resp.value, "progress", "Squat") # {}

\* the non-null rpe values, one per row, of the rows of exercise e dated
\* from day lo to day hi, as a sequence
RpeBetween(T, e, lo, hi) ==
    LET at == Ascending({k \in 1..Len(T) :
                  /\ T[k].exercise = e
                  /\ T[k].rpe # NULL
                  /\ lo <= T[k].date
                  /\ T[k].date <= hi})
    IN [n \in 1..Len(at) |-> T[at[n]].rpe]

\* the mean of a sequence of values exists and is strictly greater than 9
MeanOverNine(values) == Len(values) > 0 /\ SeqSum(values) > 9 * Len(values)

\* C17: for every exercise the call looks at, insights holds a fatigue
\* warning naming it if and only if the mean of the non-null rpe values of
\* its rows dated within the 7 days up to the current date is strictly
\* greater than 9; a finding the limit cut off is the one exception to "if".
\* The query bounds the date from below only, so a row dated after the
\* current date enters the mean
C17_FatigueIffMeanOverNine ==
    InsightsAnswered =>
        LET T == TableOf(active_table)
            list == resp.value
            limit == IF resp.arg.exercise = NoExercise THEN 5 ELSE 3
            Tired(e) == MeanOverNine(RpeBetween(T, e, resp.arg.today - 7,
                                                resp.arg.today))
        IN /\ \A i \in PositionsOf(list, "fatigue") :
                 /\ list[i].type = "warning"
                 /\ InScope(resp.arg, list[i].exercise)
                 /\ Tired(list[i].exercise)
           /\ \A e \in ExercisesIn(T) :
                 (InScope(resp.arg, e) /\ Tired(e) /\ Len(list) < limit) =>
                    NamedAt(list, "fatigue", e) # {}

\* the fatigue rule as the query computes it: the same condition over the
\* rows dated on or after current_date - 7 days, with no upper end
FatigueIffMeanOverNineSince7DaysAgo ==
    InsightsAnswered =>
        LET T == TableOf(active_table)
            list == resp.value
            limit == IF resp.arg.exercise = NoExercise THEN 5 ELSE 3
            Tired(e) == MeanOverNine(RpeBetween(T, e, resp.arg.today - 7,
                                                1000))
        IN /\ \A i \in PositionsOf(list, "fatigue") :
                 /\ list[i].type = "warning"
                 /\ InScope(resp.arg, list[i].exercise)
                 /\ Tired(list[i].exercise)
           /\ \A e \in ExercisesIn(T) :
                 (InScope(resp.arg, e) /\ Tired(e) /\ Len(list) < limit) =>
                    NamedAt(list, "fatigue", e) # {}

\* bench rated 10 and 8, a mean of exactly 9: no warning, though not cut off
FatigueNotAtNine ==
    /\ InsightsAnswered
    /\ resp.arg.today = 12
    /\ RpeBetween(TableOf(active_table), "Bench", 5, 12) = <<10, 8>>
    /\ NamedAt(resp.value, "fatigue", "Bench") = {}
    /\ Len(resp.value) < 3

\* bench rated 10 on one set and unrated on another: the mean is 10, not 5
FatigueSkipsNullRpe ==
    /\ InsightsAnswered
    /\ resp.arg.today = 12
    /\ RpeBetween(TableOf(active_table), "Bench", 5, 12) = <<10>>
    /\ \E i \in 1..Len(TableOf(active_table)) :
          /\ TableOf(active_table)[i].exercise = "Bench"
          /\ TableOf(active_table)[i].rpe = NULL
          /\ TableOf(active_table)[i].date >= 5
    /\ NamedAt(resp.value, "fatigue", "Bench") # {}

(* --------------------- claims on overview and latest_date --------------- *)
\* the Monday of the week of day d; day 0, 2023-12-25, is a Monday
MondayOf(d) == CHOOSE m \in (d - 6)..d : m % 7 = 0

\* the rows of the table the read-selector names
ActiveRows ==
    IF active_table = "demo_training_history" THEN demo_training_history
    ELSE training_history

\* the dates of the rows of T
RowDates(T) == {T[i].date : i \in 1..Len(T)}

\* the newest date of T, or today when T has no row
Latest(T, today) == IF T = <<>> THEN today ELSE SetMax(RowDates(T))

\* C18: the weekly_frequency of overview is the number of distinct dates d
\* of the active table with Monday(latest) <= d <= latest, latest being its
\* newest date; rows dated before that Monday do not count
C18_WeeklyFrequency ==
    resp.op = "get_overview" =>
        LET latest == Latest(ActiveRows, resp.arg)
        IN resp.value.weekly_frequency =
              Cardinality({d \in RowDates(ActiveRows) :
                              MondayOf(latest) <= d /\ d <= latest})

\* entries on Saturday and Sunday of the week before, on the Monday, and two
\* on the Friday, which is the latest date: a frequency of 2
C18_Witness ==
    /\ resp.op = "get_overview"
    /\ active_table = "training_history"
    /\ Len(training_history) = 5
    /\ RowDates(training_history) = {5, 6, 7, 11}
    /\ resp.value.weekly_frequency = 2

\* C19: the volume load of overview is the sum of weight_kg * reps over the
\* rows of the active table dated from Monday(latest) to latest that have
\* both fields; a row missing one, or dated outside, adds nothing
C19_VolumeLoad ==
    resp.op = "get_overview" =>
        LET T == ActiveRows
            latest == Latest(T, resp.arg)
            Counted(r) ==
                /\ MondayOf(latest) <= r.date /\ r.date <= latest
                /\ r.weight_kg # NULL /\ r.reps # NULL
        IN resp.value.total_volume_load_current_week =
              SeqSum([i \in 1..Len(T) |->
                        IF Counted(T[i]) THEN T[i].weight_kg * T[i].reps
                        ELSE 0])

\* 5 x 100 the week before, 5 x 106 and 8 x 100 this week, a set with no
\* reps and a machine set with no weight this week: 530 + 800
C19_Witness ==
    /\ resp.op = "get_overview"
    /\ active_table = "training_history"
    /\ \E i \in 1..Len(training_history) :
          /\ training_history[i].date = 5
          /\ training_history[i].weight_kg = 100
          /\ training_history[i].reps = 5
    /\ \E i \in 1..Len(training_history) :
          /\ training_history[i].date = 11
          /\ training_history[i].weight_kg = 105
          /\ training_history[i].reps = NULL
    /\ \E i \in 1..Len(training_history) :
          /\ training_history[i].date = 7
          /\ training_history[i].weight_kg = NULL
          /\ training_history[i].reps = 12
    /\ resp.value.total_volume_load_current_week = 1330

\* C20: latest_date is the newest date of the rows of the selected table,
\* and the caller's current date when that table has no row; the rows of the
\* table that is not selected have no part in it
C20_LatestDate ==
    resp.op = "get_latest_date" =>
        IF ActiveRows = <<>> THEN resp.value = resp.arg
        ELSE /\ resp.value \in RowDates(ActiveRows)
             /\ \A d \in RowDates(ActiveRows) : d <= resp.value

\* the user table is selected and ends on day 11 while the demo table holds
\* an entry of day 20
C20_Witness ==
    /\ resp.op = "get_latest_date"
    /\ active_table = "training_history"
    /\ 11 \in RowDates(training_history)
    /\ 20 \in RowDates(demo_training_history)
    /\ resp.value = 11

\* the user table is selected and empty while the demo table is not: today
C20_EmptySelected ==
    /\ resp.op = "get_latest_date"
    /\ active_table = "training_history"
    /\ training_history = <<>>
    /\ demo_training_history # <<>>
    /\ resp.value = resp.arg

(* --------------------------- claims on trends --------------------------- *)
\* C21: get_trends called with a metric name other than volume_load,
\* average_rpe, max_weight and weekly_frequency answers normally with the
\* empty sequence and leaves every table and the selector as they were,
\* whatever the rows of the selected table and the exercise argument
C21_UnknownMetricIsEmpty ==
    [][(resp'.op = "get_trends"
        /\ resp'.arg.metric \notin {"volume_load", "average_rpe",
                                    "max_weight", "weekly_frequency"}) =>
          /\ resp'.status = 200
          /\ resp'.value = <<>>
          /\ UNCHANGED <<training_history, demo_training_history,
                         weight_history, active_table>>]_vars

\* the metric one_rep_max asked for Squat on a history that has squat sets
\* with weight and reps
C21_Witness ==
    /\ resp.op = "get_trends"
    /\ resp.arg.metric = "one_rep_max"
    /\ resp.arg.exercise = "Squat"
    /\ active_table = "training_history"
    /\ \E i \in 1..Len(training_history) :
          /\ training_history[i].exercise = "Squat"
          /\ training_history[i].weight_kg # NULL
          /\ training_history[i].reps # NULL
    /\ resp.value = <<>>

\* C23: the volume_load trend has exactly one point per distinct date on
\* which a row (of the given exercise, when one is given) has both weight_kg
\* and reps, valued the sum of weight_kg * reps over those rows of that date;
\* the points are in strictly ascending date order and rows of other
\* exercises add nothing when an exercise is given
C23_VolumeTrend ==
    (resp.op = "get_trends" /\ resp.arg.metric = "volume_load") =>
        LET T == ActiveRows
            points == resp.value
            Counted(r) ==
                /\ r.weight_kg # NULL /\ r.reps # NULL
                /\ (resp.arg.exercise = NoExercise
                    \/ r.exercise = resp.arg.exercise)
            VolumeOn(d) ==
                SeqSum([k \in 1..Len(T) |->
                          IF Counted(T[k]) /\ T[k].date = d
                          THEN T[k].weight_kg * T[k].reps ELSE 0])
        IN /\ {points[i].date : i \in 1..Len(points)}
                 = {T[k].date : k \in {n \in 1..Len(T) : Counted(T[n])}}
           /\ \A i, j \in 1..Len(points) :
                 i < j => points[i].date < points[j].date
           /\ \A i \in 1..Len(points) :
                 points[i].value = VolumeOn(points[i].date)

\* the trend of Squat over a log with two squat sets and a bench set on day
\* 8, a squat set without reps on day 7 and a squat set of day 5 written
\* last: the points are day 5 with 450 and day 8 with 500 + 330
C23_Witness ==
    /\ resp.op = "get_trends"
    /\ resp.arg = [metric |-> "volume_load", exercise |-> "Squat"]
    /\ active_table = "training_history"
    /\ \E i \in 1..Len(training_history) :
          /\ training_history[i].exercise = "Bench"
          /\ training_history[i].date = 8
          /\ training_history[i].reps # NULL
    /\ \E i \in 1..Len(training_history) :
          /\ training_history[i].date = 7
          /\ training_history[i].exercise = "Squat"
    /\ resp.value = <<[date |-> 5, value |-> 450], [date |-> 8, value |-> 830]>>

(* ------------------------- claims on progression ------------------------ *)
\* the rows of T of exercise e that carry a weight_kg
WeightedAt(T, e) ==
    {k \in 1..Len(T) : T[k].exercise = e /\ T[k].weight_kg # NULL}

\* the mean weight_kg of exercise e on date d, as <<sum, number of rows>>
MeanWeightOn(T, e, d) ==
    LET at == Ascending({k \in WeightedAt(T, e) : T[k].date = d})
    IN <<SeqSum([n \in 1..Len(at) |-> T[at[n]].weight_kg]), Len(at)>>

\* the mean weight of exercise e on the first and on the last of its dates
\* with a weight
StartWeight(T, e) ==
    MeanWeightOn(T, e, SetMin({T[k].date : k \in WeightedAt(T, e)}))
EndWeight(T, e) ==
    MeanWeightOn(T, e, SetMax({T[k].date : k \in WeightedAt(T, e)}))

\* end_weight - start_weight of exercise e as a fraction with a positive
\* denominator
WeightDiff(T, e) ==
    <<EndWeight(T, e)[1] * StartWeight(T, e)[2]
        - StartWeight(T, e)[1] * EndWeight(T, e)[2],
      EndWeight(T, e)[2] * StartWeight(T, e)[2]>>

\* the exercises of T with a weight whose diff is not zero
Progressing(T) ==
    {e \in {T[k].exercise : k \in {n \in 1..Len(T) : T[n].weight_kg # NULL}} :
        WeightDiff(T, e)[1] # 0}

\* C22: the top list of progression names only exercises whose diff =
\* end_weight - start_weight (the mean weight_kg on the first and the last
\* date with a weight) is not zero, each once and with these three values,
\* so an exercise seen on one date only is never listed; the list is in
\* non-increasing order of diff, has min(5, number of such exercises)
\* entries, and no exercise left out has a larger diff than a listed one
C22_TopProgressions ==
    resp.op = "get_progression_analysis" =>
        LET T == ActiveRows
            top == resp.value.top_progressions
            listed == {top[i].exercise : i \in 1..Len(top)}
        IN /\ Len(top) <= 5
           /\ Len(top) = IF Cardinality(Progressing(T)) < 5
                         THEN Cardinality(Progressing(T)) ELSE 5
           /\ listed \subseteq Progressing(T)
           /\ \A i, j \in 1..Len(top) :
                 top[i].exercise = top[j].exercise => i = j
           /\ \A i \in 1..Len(top) :
                 /\ RatEq(top[i].start_weight, StartWeight(T, top[i].exercise))
                 /\ RatEq(top[i].end_weight, EndWeight(T, top[i].exercise))
                 /\ RatEq(top[i].diff, WeightDiff(T, top[i].exercise))
                 /\ Cardinality({T[k].date :
                                   k \in WeightedAt(T, top[i].exercise)}) >= 2
           /\ \A i, j \in 1..Len(top) :
                 i < j => ~RatLess(WeightDiff(T, top[i].exercise),
                                   WeightDiff(T, top[j].exercise))
           /\ \A e \in Progressing(T) \ listed : \A f \in listed :
                 ~RatLess(WeightDiff(T, f), WeightDiff(T, e))

\* the full log: six exercises changed, squat by 17.5 over the mean of two
\* sets, dip did not; press, which lost 5, is left out of the five listed
C22_Witness ==
    /\ resp.op = "get_progression_analysis"
    /\ active_table = "training_history"
    /\ Len(training_history) = 15
    /\ Len(resp.value.top_progressions) = 5
    /\ resp.value.top_progressions[1].exercise = "Squat"
    /\ RatEq(resp.value.top_progressions[1].diff, <<35, 2>>)
    /\ \A i \in 1..5 :
          resp.value.top_progressions[i].exercise \notin {"Press", "Dip"}

(* ------------------------ claims on exercise_stats ---------------------- *)
\* C24: exercise_stats answers 0 for all five values when the active table
\* has no row of the exercise, and otherwise its total set count is the
\* number of rows of the exercise.  The code takes "no data" to be "no
\* weight_kg and no machine_level", so an exercise logged without either is
\* answered with a set count of 0
C24_ExerciseStats ==
    resp.op = "get_exercise_stats" =>
        LET T == ActiveRows
            sets == Cardinality({k \in 1..Len(T) :
                                    T[k].exercise = resp.arg})
        IN IF sets = 0
           THEN /\ resp.value.max_weight = 0
                /\ resp.value.max_level = 0
                /\ RatEq(resp.value.average_rpe, <<0, 1>>)
                /\ resp.value.total_volume = 0
                /\ resp.value.total_sets = 0
           ELSE resp.value.total_sets = sets

\* exercise_stats as the code computes it: all five values are 0 when no row
\* of the exercise carries a weight_kg or a machine_level, and otherwise the
\* total set count is the number of rows of the exercise
ExerciseStatsZeroWithoutLoad ==
    resp.op = "get_exercise_stats" =>
        LET T == ActiveRows
            of == {k \in 1..Len(T) : T[k].exercise = resp.arg}
        IN IF \A k \in of : T[k].weight_kg = NULL /\ T[k].machine_level = NULL
           THEN /\ resp.value.max_weight = 0
                /\ resp.value.max_level = 0
                /\ RatEq(resp.value.average_rpe, <<0, 1>>)
                /\ resp.value.total_volume = 0
                /\ resp.value.total_sets = 0
           ELSE resp.value.total_sets = Cardinality(of)

(* --------------------------- claims on frames --------------------------- *)
\* the names under which the read operations answer
ReadOps ==
    {"get_overview", "get_trends", "get_progression_analysis",
     "get_insights", "get_latest_date", "get_exercises",
     "get_exercise_stats", "get_recent_history", "get_weight_history"}

\* C25: no read writes: a step of overview, trend, progression, insights,
\* latest_date, exercises, exercise_stats, recent history or weight_history
\* leaves the rows of training_history, demo_training_history and
\* weight_history and the read-selector as they were
C25_ReadsDoNotWrite ==
    [][resp'.op \in ReadOps =>
          /\ training_history' = training_history
          /\ demo_training_history' = demo_training_history
          /\ weight_history' = weight_history
          /\ active_table' = active_table]_vars

\* recent history read from the demo table while all three tables hold rows
C25_Witness ==
    /\ resp.op = "get_recent_history"
    /\ active_table = "demo_training_history"
    /\ Len(resp.value) = Len(demo_training_history)
    /\ training_history # <<>>
    /\ demo_training_history # <<>>
    /\ weight_history # <<>>

\* T is kept, row by row, at the front of U
KeptIn(T, U) == Len(T) <= Len(U) /\ SubSeq(U, 1, Len(T)) = T

\* C26: set-entries are never updated or deleted one by one: every step that
\* is not an import (append, weight upsert, selecting a table, any read)
\* keeps every row of training_history and of demo_training_history, with
\* all its fields and its row_id, where it was
C26_RowsStayUntilReplaced ==
    [][resp'.op # "import_data" =>
          /\ KeptIn(training_history, training_history')
          /\ KeptIn(demo_training_history, demo_training_history')]_vars

\* a set appended to a table that was imported before: both rows are there
C26_Witness ==
    /\ resp.op = "log_workout"
    /\ Len(training_history) = 2
    /\ training_history[1].exercise = "Leg Press"
    /\ training_history[2].row_id = 2

\* C27: an import of user data, whether it succeeds, fails or is refused,
\* changes at most training_history: demo_training_history, every weight
\* entry and the read-selector are after it what they were before it
C27_ImportFrame ==
    [][resp'.op = "import_data" =>
          /\ demo_training_history' = demo_training_history
          /\ weight_history' = weight_history
          /\ active_table' = active_table]_vars

\* an import that failed while the demo table was selected and both the demo
\* table and the weight log held rows
C27_Witness ==
    /\ resp.op = "import_data"
    /\ resp.status = 500
    /\ active_table = "demo_training_history"
    /\ demo_training_history # <<>>
    /\ weight_history # <<>>

(* ------------------- claims on overlapping engine calls ----------------- *)
\* C28: two log_workout calls that overlap, each reading MAX(row_id) and
\* then inserting, leave rows with distinct row_id values in
\* training_history.  The two statements are not one transaction and the
\* column has no uniqueness constraint, so both calls can read the same
\* maximum
C28_OverlappingAppendsDistinctIds ==
    \A i, j \in 1..Len(training_history) :
        training_history[i].row_id = training_history[j].row_id => i = j

\* C29 as claimed: the five values of one overview answer all come from one
\* table, the user table or the demo table, whatever another caller selects
\* between the statements of the computation
C29_OverviewFromOneTable ==
    resp.op = "get_overview" =>
        \E t \in {"training_history", "demo_training_history"} :
            resp.value = get_overview_metrics(TableOf(t), resp.arg.today, t)

\* C29, amended: when no statement of an overview computation is built with
\* another value of the read-selector than its first statement (no caller
\* has selected the other table in between), latest, weekly_frequency,
\* volume_load, weak_point_count and is_demo all refer to that one table;
\* the engine does not isolate a computation from a selection made between
\* its statements
C29_OverviewFromOneTableUnlessToggled ==
    (resp.op = "get_overview" /\ resp.arg.single) =>
        LET T == IF resp.arg.table = "demo_training_history"
                 THEN demo_training_history ELSE training_history
            latest == Latest(T, resp.arg.today)
            week == {k \in 1..Len(T) :
                        MondayOf(latest) <= T[k].date /\ T[k].date <= latest}
        IN /\ resp.value.is_demo = (resp.arg.table = "demo_training_history")
           /\ resp.value.weekly_frequency
                 = Cardinality({T[k].date : k \in week})
           /\ resp.value.total_volume_load_current_week
                 = SeqSum([k \in 1..Len(T) |->
                             IF k \in week /\ T[k].weight_kg # NULL
                                /\ T[k].reps # NULL
                             THEN T[k].weight_kg * T[k].reps ELSE 0])
           /\ resp.value.active_weak_points_count
                 = Cardinality({k \in week :
                      T[k].workout \in {"Weak Point Day", "Weak Point Legs"}})

\* an overview computed on the demo table throughout while the user table
\* holds other rows
C29_Witness ==
    /\ resp.op = "get_overview"
    /\ resp.arg.single
    /\ resp.arg.table = "demo_training_history"
    /\ resp.value.is_demo
    /\ resp.value.total_volume_load_current_week = 500
    /\ Len(training_history) = 4
    /\ demo_training_history # <<>>

(* ------------------- claims on insights for one exercise --------------- *)
\* C30: when insights is called with an exercise E, every stagnation,
\* progress and fatigue finding of the answer names E, while the integrity
\* rule is evaluated over all rows of the active table whatever E is: its
\* finding is present exactly when some adjacent pair of rows of any
\* exercise steps back a year, and it then takes the first of the 3 places
C30_FilterSparesIntegrity ==
    (InsightsAnswered /\ resp.arg.exercise # NoExercise) =>
        LET T == TableOf(active_table)
        IN /\ Len(resp.value) <= 3
           /\ \A i \in 1..Len(resp.value) :
                 resp.value[i].category
                       \in {"stagnation", "progress", "fatigue"}
                    => resp.value[i].exercise = resp.arg.exercise
           /\ PositionsOf(resp.value, "integrity")
                 = IF YearRegressions(T) # {} THEN {1} ELSE {}

\* insights for Squat whose first place cites the year regression between
\* two Bench rows, followed by a finding naming Squat
C30_Witness ==
    /\ InsightsAnswered
    /\ resp.arg.exercise = "Squat"
    /\ active_table = "training_history"
    /\ \A p \in YearRegressions(training_history) :
          /\ training_history[p[1]].exercise = "Bench"
          /\ training_history[p[2]].exercise = "Bench"
    /\ Len(resp.value) >= 2
    /\ resp.value[1].category = "integrity"
    /\ resp.value[1].date = 6
    /\ resp.value[1].prev_date = 11
    /\ resp.value[2].exercise = "Squat"
    /\ "Bench" \in ExercisesIn(training_history)

====
